---- MODULE Spec2Model ----
(***************************************************************************)
(* Model of the turn-based game server (turnbased-game-server/src/server.rs *)
(* and types.rs) running the Hanabi game (hanabi/src/lib.rs).               *)
(*                                                                          *)
(* Option<T> is a sequence of length 0 (None) or 1 (Some(x)).               *)
(* A Vec is a sequence; a HashMap is a function on its key set.             *)
(***************************************************************************)
EXTENDS Integers, Sequences, FiniteSets, TLC

VARIABLES clients, users, rooms, poisoned, sent, game, outcome, view,
          lock, crit, task, queue, wire

vars == <<clients, users, rooms, poisoned, sent, game, outcome, view,
          lock, crit, task, queue, wire>>

serverVars == <<clients, users, rooms, poisoned, sent>>

gameVars == <<game, outcome, view>>

connVars == <<lock, crit, task, queue, wire>>

----------------------------------------------------------------------------
(* Bounds of the model.                                                     *)

\* Rooms that NewRoom may create before it is no longer offered.
MaxRooms == 1

\* Moves accepted in one room's game before MakeMove is no longer offered.
MaxMoves == 3

\* Moves accepted in the stand-alone game before moves are no longer offered.
MaxGameMoves == 3

\* Socket addresses of the connections.
ClientIds == {"c1", "c2"}

\* Names offered to Login.
UserIds == {"alice", "bob", "carol"}

\* (min_players, max_players) pairs offered to NewRoom.
RoomSizes == {<<0, 0>>, <<1, 1>>, <<2, 2>>, <<3, 2>>, <<3, 3>>}

\* Room identifiers offered to WatchRoom.
WatchIds == {0, 1}

None == <<>>

Some(x) == <<x>>

----------------------------------------------------------------------------
(* hanabi/src/lib.rs: constants, cards and the deck.                        *)

MAX_HINTS == 8

MAX_LIVES == 3

MAX_VALUE == 5

MAX_COLORS == 6

Multi == 5

COLORS == <<0, 1, 2, 3, 4, 5>>

GameVariants == {"Base", "Multi", "MultiHard"}

num_colors(variant) == IF variant = "Base" THEN 5 ELSE 6

max_score(variant) == 5 * num_colors(variant)

has_multi(variant) == variant # "Base"

colors(variant) == SubSeq(COLORS, 1, num_colors(variant))

\* Deck::count
DeckCount(variant, c, v) ==
    IF c = Multi /\ variant = "MultiHard" THEN 1
    ELSE IF v = 1 THEN 3
    ELSE IF v \in {2, 3, 4} THEN 2
    ELSE 1

Card(c, v) == [c |-> c, v |-> v]

Rep(x, n) == [i \in 1..n |-> x]

RECURSIVE ValueRun(_, _, _)
\* the cards of colour c with values v..MAX_VALUE, in the order Deck::new pushes them
ValueRun(variant, c, v) ==
    IF v > MAX_VALUE THEN <<>>
    ELSE Rep(Card(c, v), DeckCount(variant, c, v)) \o ValueRun(variant, c, v + 1)

RECURSIVE ColorRun(_, _)
ColorRun(variant, cs) ==
    IF cs = <<>> THEN <<>>
    ELSE ValueRun(variant, Head(cs), 1) \o ColorRun(variant, Tail(cs))

Reverse(s) == [i \in 1..Len(s) |-> s[Len(s) + 1 - i]]

\* The outcomes of cards.shuffle(..) the model draws from.
Shuffles == {"sorted", "reversed"}

\* Deck::new; the shuffle is one of the permutations named by Shuffles.
DeckNew(variant, shuffle) ==
    LET cards == ColorRun(variant, colors(variant))
    IN [tag |-> "Visible",
        cards |-> IF shuffle = "sorted" THEN cards ELSE Reverse(cards)]

\* Deck::len
DeckLen(deck) == IF deck.tag = "Visible" THEN Len(deck.cards) ELSE deck.len

\* Deck::is_empty
DeckIsEmpty(deck) == DeckLen(deck) = 0

\* Deck::view
DeckView(deck) == [tag |-> "Hidden", len |-> DeckLen(deck)]

----------------------------------------------------------------------------
(* Knowledge and hands.                                                     *)

\* CardKnowledge::new
CardKnowledgeNew(variant) ==
    [vs |-> [v \in 1..MAX_VALUE |-> "Possible"],
     cs |-> [c \in 0..(MAX_COLORS - 1) |->
                IF c = Multi /\ ~has_multi(variant) THEN "Impossible" ELSE "Possible"],
     picked_up |-> "Start"]

\* Hand::new: the hand takes cards_per_player cards off the end of the deck.
HandNew(variant, n, deckCards) ==
    [tag |-> "Visible",
     cards |-> [i \in 1..n |->
                  [card |-> deckCards[Len(deckCards) + 1 - i],
                   know |-> CardKnowledgeNew(variant)]]]

\* Hand::draw; returns the hand and the deck
HandDraw(hand, variant, deck) ==
    IF Len(deck.cards) = 0 THEN [hand |-> hand, deck |-> deck]
    ELSE [hand |-> [hand EXCEPT !.cards =
                        Append(@, [card |-> deck.cards[Len(deck.cards)],
                                   know |-> CardKnowledgeNew(variant)])],
          deck |-> [deck EXCEPT !.cards = SubSeq(@, 1, Len(@) - 1)]]

RemoveAt(s, i) == SubSeq(s, 1, i - 1) \o SubSeq(s, i + 1, Len(s))

\* take that hands the card out and leaves it in the hand
HandTake_keeps_card(hand, card_idx) == hand

\* Hand::take; card_idx is 1-based
HandTakeOk(hand, card_idx) == card_idx - 1 < Len(hand.cards)

HandTake(hand, card_idx) == [hand EXCEPT !.cards = RemoveAt(@, card_idx)]

CountPossible(f) == Cardinality({k \in DOMAIN f : f[k] = "Possible"})

FirstPossible(f) == CHOOSE k \in DOMAIN f : f[k] = "Possible" /\ \A j \in DOMAIN f : f[j] = "Possible" => k <= j

\* "If only one 'possible' remaining, set it to Known."
SettleOne(f) == IF CountPossible(f) = 1 THEN [f EXCEPT ![FirstPossible(f)] = "Known"] ELSE f

ValueHint(v) == [tag |-> "ValueHint", x |-> v]

ColorHint(c) == [tag |-> "ColorHint", x |-> c]

\* Hand::hint on one card, value hint
KnowValueHint(cw, v) ==
    IF v = cw.card.v
    THEN [cw EXCEPT !.know.vs = [k \in 1..MAX_VALUE |-> IF k = v THEN "Known" ELSE "Impossible"]]
    ELSE [cw EXCEPT !.know.vs = SettleOne([@ EXCEPT ![v] = "Impossible"])]

\* Hand::hint on one card, colour hint
KnowColorHint(cw, c) ==
    IF cw.card.c = c \/ cw.card.c = Multi
    THEN [cw EXCEPT !.know.cs =
            SettleOne([ci \in DOMAIN @ |-> IF ci # c /\ ci # Multi THEN "Impossible" ELSE @[ci]])]
    ELSE [cw EXCEPT !.know.cs = SettleOne([@ EXCEPT ![Multi] = "Impossible", ![c] = "Impossible"])]

\* Hand::hint: error
HandHintErr(hint) ==
    IF hint.tag = "ValueHint"
    THEN (IF hint.x \in 1..MAX_VALUE THEN None ELSE Some("Hinted value is out of range."))
    ELSE (IF hint.x = Multi THEN Some("Hinting multi is not allowed.") ELSE None)

\* Hand::hint: the hand after an accepted hint
HandHint(hand, hint) ==
    [hand EXCEPT !.cards =
        [i \in 1..Len(@) |->
            IF hint.tag = "ValueHint" THEN KnowValueHint(@[i], hint.x)
            ELSE KnowColorHint(@[i], hint.x)]]

\* Hand::hint: the hinted indices (1-based CardIdx)
RECURSIVE HintedFrom(_, _, _)
HintedFrom(cards, hint, i) ==
    IF i > Len(cards) THEN <<>>
    ELSE (IF (hint.tag = "ValueHint" /\ cards[i].card.v = hint.x)
             \/ (hint.tag = "ColorHint" /\ (cards[i].card.c = hint.x \/ cards[i].card.c = Multi))
          THEN <<i>> ELSE <<>>) \o HintedFrom(cards, hint, i + 1)

HintedIndices(hand, hint) == HintedFrom(hand.cards, hint, 1)

\* Hand::to_view (panics on a hand that is already Hidden)
HandToView(hand) ==
    [tag |-> "Hidden", knows |-> [i \in 1..Len(hand.cards) |-> hand.cards[i].know]]

\* Hand::to_view panics on a hand that is not Visible (the let-else)
HandToViewPanics(hand) == hand.tag # "Visible"

----------------------------------------------------------------------------
(* The Game.                                                                *)

Play(card_idx) == [tag |-> "Play", card_idx |-> card_idx]

Discard(card_idx) == [tag |-> "Discard", card_idx |-> card_idx]

Hint(hinted_player, hint) == [tag |-> "Hint", hinted_player |-> hinted_player, hint |-> hint]

HintOtherPlayer(hint) == [tag |-> "HintOtherPlayer", hint |-> hint]

NextPlayer(p) == [tag |-> "NextPlayer", player |-> p]

Ok(g) == [err |-> None, g |-> g]

Err(msg, g) == [err |-> Some(msg), g |-> g]

\* Game::new panics (gen_range on an empty range, or the match on num_players)
GameNewPanics(players) == Len(players) \notin {2, 3, 4, 5}

\* Game::new; shuffled, start_player and shuffle are the three random draws
GameNew(players, variant, shuffled, start_player, shuffle) ==
    LET num_players == Len(players)
        cards_per_player == IF num_players \in {2, 3} THEN 5 ELSE 4
        deck == DeckNew(variant, shuffle)
        after(k) == SubSeq(deck.cards, 1, Len(deck.cards) - k * cards_per_player)
    IN [players |-> shuffled,
        start_player |-> start_player,
        game_state |-> NextPlayer(start_player),
        last_player |-> None,
        cards_per_player |-> cards_per_player,
        hints |-> MAX_HINTS,
        lives |-> MAX_LIVES,
        variant |-> variant,
        deck |-> [deck EXCEPT !.cards = after(num_players)],
        hands |-> [i \in 1..num_players |-> HandNew(variant, cards_per_player, after(i - 1))],
        discarded |-> <<>>,
        played |-> [c \in 0..(num_colors(variant) - 1) |-> 0],
        move_log |-> <<>>]

\* Game::player_id: Option<Player>, 0-based
player_id(g, player) ==
    IF \E i \in 1..Len(g.players) : g.players[i] = player
    THEN Some((CHOOSE i \in 1..Len(g.players) :
                 g.players[i] = player /\ \A j \in 1..(i - 1) : g.players[j] # player) - 1)
    ELSE None

\* Played::score
Score(played) ==
    LET RECURSIVE Sum(_)
        Sum(c) == IF c \notin DOMAIN played THEN 0 ELSE played[c] + Sum(c + 1)
    IN Sum(0)

\* Game::hint
GameHint(g, hinted_player, player, hint) ==
    IF g.hints = 0 THEN Err("No hints remaining; hinting not allowed.", g)
    ELSE IF hinted_player = player THEN Err("Hinting yourself is not allowed.", g)
    ELSE IF hinted_player \notin 0..(Len(g.players) - 1) THEN Err("Player out of range", g)
    ELSE LET g1 == [g EXCEPT !.hints = @ - 1]
             herr == HandHintErr(hint)
         IN IF herr # None THEN Err(herr[1], g1)
            ELSE Ok([g1 EXCEPT
                       !.hands[hinted_player + 1] = HandHint(@, hint),
                       !.move_log = Append(@,
                           [player |-> player,
                            mov |-> [tag |-> "Hint", hinted_player |-> hinted_player, hint |-> hint,
                                     card_indices |-> HintedIndices(g.hands[hinted_player + 1], hint)]])])

\* Game::make_move, the match on the move (lines 769-835)
DoMove(g, player, mov) ==
    CASE mov.tag = "Play" ->
            IF ~HandTakeOk(g.hands[player + 1], mov.card_idx)
            THEN Err("Card index out of range.", g)
            ELSE LET cw == g.hands[player + 1].cards[mov.card_idx]
                     card == cw.card
                     success == card.v = g.played[card.c] + 1
                     g1 == [g EXCEPT !.hands[player + 1] = HandTake(@, mov.card_idx)]
                     g2 == IF success
                           THEN [g1 EXCEPT !.played[card.c] = @ + 1,
                                           !.hints = IF card.v = MAX_VALUE THEN @ + 1 ELSE @]
                           ELSE [g1 EXCEPT !.discarded = Append(@, card),
                                           !.lives = @ - 1]
                     d == HandDraw(g2.hands[player + 1], g2.variant, g2.deck)
                 IN Ok([g2 EXCEPT
                          !.hands[player + 1] = d.hand,
                          !.deck = d.deck,
                          !.move_log = Append(@,
                              [player |-> player,
                               mov |-> [tag |-> "Play", card_idx |-> mov.card_idx, card |-> card,
                                        know |-> cw.know, success |-> success]])])
      [] mov.tag = "Discard" ->
            IF g.hints = MAX_HINTS
            THEN Err("Already at max hints; discarding not allowed.", g)
            ELSE IF ~HandTakeOk(g.hands[player + 1], mov.card_idx)
            THEN Err("Card index out of range.", g)
            ELSE LET cw == g.hands[player + 1].cards[mov.card_idx]
                     g1 == [g EXCEPT !.hands[player + 1] = HandTake(@, mov.card_idx),
                                     !.discarded = Append(@, cw.card),
                                     !.hints = @ + 1]
                     d == HandDraw(g1.hands[player + 1], g1.variant, g1.deck)
                 IN Ok([g1 EXCEPT
                          !.hands[player + 1] = d.hand,
                          !.deck = d.deck,
                          !.move_log = Append(@,
                              [player |-> player,
                               mov |-> [tag |-> "Discard", card_idx |-> mov.card_idx,
                                        card |-> cw.card, know |-> cw.know]])])
      [] mov.tag = "Hint" -> GameHint(g, mov.hinted_player, player, mov.hint)
      [] mov.tag = "HintOtherPlayer" ->
            IF Len(g.players) = 2
            THEN GameHint(g, (player + 1) % 2, player, mov.hint)
            ELSE Err("Specify the player to hint", g)

\* make_move naming the last player before it looks whether the game ends
GameMakeMove_ends_at_once(g, player, mov) ==
    IF g.game_state.tag # "NextPlayer" THEN Err("Game has ended.", g)
    ELSE IF player # g.game_state.player THEN Err("Not this player's turn.", g)
    ELSE LET r == DoMove(g, player, mov)
         IN IF r.err # None THEN r
            ELSE LET g1 == [r.g EXCEPT !.last_player =
                               IF DeckIsEmpty(r.g.deck) /\ r.g.last_player = None
                               THEN Some(player) ELSE @]
                     state == IF g1.lives = 0 THEN [tag |-> "Died"]
                              ELSE IF Score(g1.played) = max_score(g1.variant) THEN [tag |-> "Won"]
                              ELSE IF g1.last_player = Some(player) THEN [tag |-> "Ended"]
                              ELSE NextPlayer((player + 1) % Len(g1.players))
                 IN Ok([g1 EXCEPT !.game_state = state])

\* Game::make_move(player: Player, mov)
GameMakeMove(g, player, mov) ==
    IF g.game_state.tag # "NextPlayer" THEN Err("Game has ended.", g)
    ELSE IF player # g.game_state.player THEN Err("Not this player's turn.", g)
    ELSE LET r == DoMove(g, player, mov)
         IN IF r.err # None THEN r
            ELSE LET g1 == r.g
                     state == IF g1.lives = 0 THEN [tag |-> "Died"]
                              ELSE IF Score(g1.played) = max_score(g1.variant) THEN [tag |-> "Won"]
                              ELSE IF g1.last_player = Some(player) THEN [tag |-> "Ended"]
                              ELSE NextPlayer((player + 1) % Len(g1.players))
                 IN Ok([g1 EXCEPT
                          !.game_state = state,
                          !.last_player = IF DeckIsEmpty(g1.deck) /\ g1.last_player = None
                                          THEN Some(player) ELSE @])

\* Game::to_view(player: Player)
GameToView(g, player) ==
    [g EXCEPT !.deck = DeckView(@), !.hands[player + 1] = HandToView(@)]

\* Game::to_view panics inside Hand::to_view
GameToViewPanics(g, player) == HandToViewPanics(g.hands[player + 1])

\* Game::has_ended
has_ended(g) == g.game_state.tag # "NextPlayer"

\* impl GameT for Game: make_move(player: &String, mov)
GameT_make_move(g, player, mov) ==
    IF player_id(g, player) = None THEN Err("Player not found", g)
    ELSE GameMakeMove(g, player_id(g, player)[1], mov)

\* impl GameT for Game: to_view(player: &String)
GameT_to_view(g, player) ==
    IF player_id(g, player) = None THEN g
    ELSE GameToView(g, player_id(g, player)[1])

\* impl GameT for Game: to_view(player: &String) panics
GameT_to_view_panics(g, player) ==
    player_id(g, player) # None /\ GameToViewPanics(g, player_id(g, player)[1])

----------------------------------------------------------------------------
(* turnbased-game-server/src/types.rs: rooms.                               *)

WaitingForPlayers(min_players, max_players) ==
    [tag |-> "WaitingForPlayers", min_players |-> min_players, max_players |-> max_players]

Started(g) == [tag |-> "Started", game |-> g]

Ended(g) == [tag |-> "Ended", game |-> g]

\* The random draws of one Game::new: the order players.shuffle leaves,
\* the start player, and the deck shuffle.
Rnds ==
    {[order |-> "same", start |-> "first", shuffle |-> "sorted"],
     [order |-> "reversed", start |-> "last", shuffle |-> "reversed"]}

Rnd0 == [order |-> "same", start |-> "first", shuffle |-> "sorted"]

\* GameT::new as Room::start_game calls it, with the random draws rnd
GameT_new(players, settings, rnd) ==
    GameNew(players, settings,
            IF rnd.order = "same" THEN players ELSE Reverse(players),
            IF rnd.start = "first" THEN 0 ELSE Len(players) - 1,
            rnd.shuffle)

\* RoomState::make_move
RoomState_make_move(state, userid, mov) ==
    CASE state.tag = "WaitingForPlayers" -> [err |-> Some("Game did not start yet"), state |-> state]
      [] state.tag = "Started" ->
            LET r == GameT_make_move(state.game[1], userid, mov)
            IN [err |-> r.err, state |-> Started(Some(r.g))]
      [] state.tag = "Ended" -> [err |-> Some("Game already finished"), state |-> state]

\* to_list_item keeping the game of the room
to_list_item_with_game(room) == room

\* Room::to_list_item
to_list_item(room) ==
    [room EXCEPT !.state = CASE @.tag = "Started" -> Started(None)
                             [] @.tag = "Ended" -> Ended(None)
                             [] OTHER -> @]

\* Room::to_view
to_view(room, userid) ==
    [room EXCEPT !.state =
        IF @.tag = "Started"
        THEN Started(IF @.game = None THEN None ELSE Some(GameT_to_view(@.game[1], userid)))
        ELSE @]

\* Room::start_game panics inside Game::new
Room_start_game_panics(room) ==
    room.state.tag = "WaitingForPlayers" /\ GameNewPanics(room.players)

\* start_game constructing a Game whatever the phase of the room
Room_start_game_restarts(room, rnd) ==
    [room EXCEPT !.state = Started(Some(GameT_new(room.players, room.settings, rnd)))]

\* Room::start_game
Room_start_game(room, rnd) ==
    IF room.state.tag # "WaitingForPlayers" THEN room
    ELSE [room EXCEPT !.state = Started(Some(GameT_new(room.players, room.settings, rnd)))]

----------------------------------------------------------------------------
(* turnbased-game-server/src/server.rs: ServerState.                        *)
(* S is the ServerState: [clients, users, rooms]; a room id is 0-based, so  *)
(* rooms[roomid.0] of the code is S.rooms[roomid + 1].                      *)

NotLoggedIn == [type |-> "NotLoggedIn"]

RoomList(list) == [type |-> "RoomList", rooms |-> list]

RoomMsg(room) == [type |-> "Room", room |-> room]

Error(msg) == [type |-> "Error", err |-> msg]

Retain(s, x) == SelectSeq(s, LAMBDA y : y # x)

Contains(s, x) == \E i \in 1..Len(s) : s[i] = x

\* ServerState::room
room(S, roomid) == S.rooms[roomid + 1].room

\* ServerState::watchers
watchers(S, roomid) == S.rooms[roomid + 1].watchers

\* ServerState::room_list
room_list(S) == RoomList([i \in 1..Len(S.rooms) |-> to_list_item(S.rooms[i].room)])

\* leave_room taking the user of the socket out of the room's players too
leave_room_unjoins(S, clientid) ==
    IF S.clients[clientid].roomid # None
    THEN LET roomid == S.clients[clientid].roomid[1]
             userid == S.clients[clientid].userid
         IN [S EXCEPT !.rooms[roomid + 1].watchers = Retain(@, clientid),
                      !.rooms[roomid + 1].room.players =
                          IF userid = None THEN @ ELSE Retain(@, userid[1]),
                      !.clients[clientid].roomid = None]
    ELSE S

\* leave_room forgetting the room of the socket but not the socket in the
\* room's watchers
leave_room_keeps_watcher(S, clientid) ==
    IF S.clients[clientid].roomid # None
    THEN [S EXCEPT !.clients[clientid].roomid = None]
    ELSE S

\* ServerState::leave_room
leave_room(S, clientid) ==
    IF S.clients[clientid].roomid # None
    THEN LET roomid == S.clients[clientid].roomid[1]
         IN [S EXCEPT !.rooms[roomid + 1].watchers = Retain(@, clientid),
                      !.clients[clientid].roomid = None]
    ELSE S

\* logout that does not leave the watched room
logout_keeps_room(S, clientid) ==
    LET userid == S.clients[clientid].userid
    IN IF userid # None
       THEN [S EXCEPT !.users[userid[1]].sockets = Retain(@, clientid),
                      !.clients[clientid].userid = None]
       ELSE S

\* logout that leaves the watched room but keeps the user of the socket
logout_keeps_user(S, clientid) ==
    LET S1 == leave_room(S, clientid)
        userid == S1.clients[clientid].userid
    IN IF userid # None
       THEN [S1 EXCEPT !.users[userid[1]].sockets = Retain(@, clientid)]
       ELSE S1

\* ServerState::logout
logout(S, clientid) ==
    LET S1 == leave_room(S, clientid)
        userid == S1.clients[clientid].userid
    IN IF userid # None
       THEN [S1 EXCEPT !.users[userid[1]].sockets = Retain(@, clientid),
                       !.clients[clientid].userid = None]
       ELSE S1

\* ServerState::watch_room up to the indexing of the watchers (line 200)
watch_room_enter(S, clientid, roomid) ==
    [leave_room(S, clientid) EXCEPT !.clients[clientid].roomid = Some(roomid)]

\* watch_room without leaving the room the socket watched before
watch_room_no_leave(S, clientid, roomid) ==
    [S EXCEPT !.clients[clientid].roomid = Some(roomid),
              !.rooms[roomid + 1].watchers = Append(@, clientid)]

\* watch_room that unsubscribes a socket that already watches the room
watch_room_toggle(S, clientid, roomid) ==
    IF S.clients[clientid].roomid = Some(roomid)
    THEN leave_room(S, clientid)
    ELSE [watch_room_enter(S, clientid, roomid) EXCEPT
            !.rooms[roomid + 1].watchers = Append(@, clientid)]

\* ServerState::watch_room
watch_room(S, clientid, roomid) ==
    [watch_room_enter(S, clientid, roomid) EXCEPT !.rooms[roomid + 1].watchers = Append(@, clientid)]

\* ServerState::start_game: [err, S, panic]
start_game(S, userid, roomid, rnd) ==
    IF ~Contains(room(S, roomid).players, userid)
    THEN [err |-> Some("User did not join room"), S |-> S, panic |-> FALSE]
    ELSE IF Room_start_game_panics(room(S, roomid))
    THEN [err |-> None, S |-> S, panic |-> TRUE]
    ELSE [err |-> None,
          S |-> [S EXCEPT !.rooms[roomid + 1].room = Room_start_game(@, rnd)],
          panic |-> FALSE]

\* The ways ServerState::handle_action ends: a direct response, a fan-out to
\* the watchers of a room (it then returns None), returning None without a
\* fan-out, or a panic that unwinds through the lock guard.
Respond(S, resp) == [S |-> S, resp |-> Some(resp), dirty |-> None, panic |-> FALSE]

FanOut(S, roomid) == [S |-> S, resp |-> None, dirty |-> Some(roomid), panic |-> FALSE]

Silent(S) == [S |-> S, resp |-> None, dirty |-> None, panic |-> FALSE]

Panic(S) == [S |-> S, resp |-> None, dirty |-> None, panic |-> TRUE]

Login(userid) == [tag |-> "Login", userid |-> userid]

Logout == [tag |-> "Logout"]

WatchRoom(roomid) == [tag |-> "WatchRoom", roomid |-> roomid]

LeaveRoom == [tag |-> "LeaveRoom"]

NewRoom(min_players, max_players, settings) ==
    [tag |-> "NewRoom", min_players |-> min_players, max_players |-> max_players,
     settings |-> settings]

JoinRoom == [tag |-> "JoinRoom"]

StartGame == [tag |-> "StartGame"]

MakeMove(mov) == [tag |-> "MakeMove", mov |-> mov]

\* handle_NewRoom leaving the watched room after it recorded the new one
handle_NewRoom_leave_last(S, clientid, userid, action) ==
    LET roomid == Len(S.rooms)
        S1 == [S EXCEPT !.rooms = Append(@,
                 [room |-> [roomid |-> roomid,
                            settings |-> action.settings,
                            players |-> <<userid>>,
                            state |-> WaitingForPlayers(action.min_players, action.max_players)],
                  watchers |-> <<clientid>>])]
        S2 == leave_room([S1 EXCEPT !.clients[clientid].roomid = Some(roomid)], clientid)
    IN Respond(S2, RoomMsg(to_view(room(S2, roomid), userid)))

\* handle_NewRoom giving every room the identifier 0
handle_NewRoom_reuses_id(S, clientid, userid, action) ==
    LET roomid == Len(S.rooms)
        S1 == [S EXCEPT !.rooms = Append(@,
                 [room |-> [roomid |-> 0,
                            settings |-> action.settings,
                            players |-> <<userid>>,
                            state |-> WaitingForPlayers(action.min_players, action.max_players)],
                  watchers |-> <<clientid>>])]
        S2 == [leave_room(S1, clientid) EXCEPT !.clients[clientid].roomid = Some(roomid)]
    IN Respond(S2, RoomMsg(to_view(room(S2, roomid), userid)))

\* handle_action, Action::NewRoom (lines 112-133)
handle_NewRoom(S, clientid, userid, action) ==
    LET roomid == Len(S.rooms)
        S1 == [S EXCEPT !.rooms = Append(@,
                 [room |-> [roomid |-> roomid,
                            settings |-> action.settings,
                            players |-> <<userid>>,
                            state |-> WaitingForPlayers(action.min_players, action.max_players)],
                  watchers |-> <<clientid>>])]
        S2 == [leave_room(S1, clientid) EXCEPT !.clients[clientid].roomid = Some(roomid)]
    IN Respond(S2, RoomMsg(to_view(room(S2, roomid), userid)))

\* handle_action, Action::WatchRoom (lines 134-137)
handle_WatchRoom(S, clientid, userid, action) ==
    IF action.roomid >= Len(S.rooms)
    THEN Panic(watch_room_enter(S, clientid, action.roomid))
    ELSE LET S1 == watch_room(S, clientid, action.roomid)
         IN Respond(S1, RoomMsg(to_view(room(S1, action.roomid), userid)))

\* handle_JoinRoom appending the user before it looks whether the room is full
handle_JoinRoom_pushes_first(S, userid, roomid, rnd) ==
    LET r == room(S, roomid)
    IN IF r.state.tag # "WaitingForPlayers"
       THEN Respond(S, Error("Room is not waiting for players"))
       ELSE IF Contains(r.players, userid)
       THEN Respond(S, Error("User is already in room"))
       ELSE LET S1 == [S EXCEPT !.rooms[roomid + 1].room.players = Append(@, userid)]
            IN IF Len(r.players) = r.state.max_players
               THEN Respond(S1, Error("Room is already full"))
               ELSE IF Len(room(S1, roomid).players) = r.state.max_players
               THEN LET st == start_game(S1, userid, roomid, rnd)
                    IN IF st.panic THEN Panic(st.S)
                       ELSE IF st.err # None THEN Respond(st.S, Error(st.err[1]))
                       ELSE FanOut(st.S, roomid)
               ELSE FanOut(S1, roomid)

\* handle_action, Action::JoinRoom (lines 147-165)
handle_JoinRoom(S, userid, roomid, rnd) ==
    LET r == room(S, roomid)
    IN IF r.state.tag # "WaitingForPlayers"
       THEN Respond(S, Error("Room is not waiting for players"))
       ELSE IF Contains(r.players, userid)
       THEN Respond(S, Error("User is already in room"))
       ELSE IF Len(r.players) = r.state.max_players
       THEN Respond(S, Error("Room is already full"))
       ELSE LET S1 == [S EXCEPT !.rooms[roomid + 1].room.players = Append(@, userid)]
            IN IF Len(room(S1, roomid).players) = r.state.max_players
               THEN LET st == start_game(S1, userid, roomid, rnd)
                    IN IF st.panic THEN Panic(st.S)
                       ELSE IF st.err # None THEN Respond(st.S, Error(st.err[1]))
                       ELSE FanOut(st.S, roomid)
               ELSE FanOut(S1, roomid)

\* handle_action, Action::StartGame (lines 166-171)
handle_StartGame(S, userid, roomid, rnd) ==
    LET st == start_game(S, userid, roomid, rnd)
    IN IF st.panic THEN Panic(st.S)
       ELSE IF st.err # None THEN Respond(st.S, Error(st.err[1]))
       ELSE FanOut(st.S, roomid)

\* handle_MakeMove answering the caller directly on top of the fan-out
handle_MakeMove_echo(S, userid, roomid, action) ==
    IF ~Contains(room(S, roomid).players, userid)
    THEN Respond(S, Error("User did not join room"))
    ELSE LET m == RoomState_make_move(room(S, roomid).state, userid, action.mov)
             S1 == [S EXCEPT !.rooms[roomid + 1].room.state = m.state]
         IN IF m.err # None THEN Respond(S1, Error(m.err[1]))
            ELSE [S |-> S1, resp |-> Some(RoomMsg(to_view(room(S1, roomid), userid))),
                  dirty |-> Some(roomid), panic |-> FALSE]

\* handle_MakeMove refreshing the watchers also when the move is refused
handle_MakeMove_refresh(S, userid, roomid, action) ==
    IF ~Contains(room(S, roomid).players, userid)
    THEN Respond(S, Error("User did not join room"))
    ELSE LET m == RoomState_make_move(room(S, roomid).state, userid, action.mov)
             S1 == [S EXCEPT !.rooms[roomid + 1].room.state = m.state]
         IN IF m.err # None
            THEN [S |-> S1, resp |-> Some(Error(m.err[1])), dirty |-> Some(roomid),
                  panic |-> FALSE]
            ELSE FanOut(S1, roomid)

\* handle_action, Action::MakeMove (lines 172-182)
handle_MakeMove(S, userid, roomid, action) ==
    IF ~Contains(room(S, roomid).players, userid)
    THEN Respond(S, Error("User did not join room"))
    ELSE LET m == RoomState_make_move(room(S, roomid).state, userid, action.mov)
             S1 == [S EXCEPT !.rooms[roomid + 1].room.state = m.state]
         IN IF m.err # None THEN Respond(S1, Error(m.err[1]))
            ELSE FanOut(S1, roomid)

\* handle_action looking for the watched room before it looks for the user
handle_action_late_login_check(S, clientid, action, rnd) ==
    CASE action.tag = "Login" ->
            LET S1 == logout(S, clientid)
                S2 == [S1 EXCEPT !.clients[clientid].userid = Some(action.userid)]
                S3 == [S2 EXCEPT !.users =
                         [u \in DOMAIN @ \cup {action.userid} |->
                            IF u = action.userid THEN [sockets |-> <<>>] ELSE @[u]]]
            IN Respond(S3, room_list(S3))
      [] action.tag = "Logout" -> Respond(logout(S, clientid), NotLoggedIn)
      [] action.tag = "LeaveRoom" ->
            LET S1 == leave_room(S, clientid) IN Respond(S1, room_list(S1))
      [] OTHER ->
            LET userid == S.clients[clientid].userid
                roomid == S.clients[clientid].roomid
            IN IF action.tag \notin {"NewRoom", "WatchRoom"} /\ roomid = None THEN Silent(S)
               ELSE IF userid = None THEN Respond(S, NotLoggedIn)
               ELSE IF action.tag = "NewRoom" THEN handle_NewRoom(S, clientid, userid[1], action)
               ELSE IF action.tag = "WatchRoom" THEN handle_WatchRoom(S, clientid, userid[1], action)
               ELSE IF action.tag = "JoinRoom" THEN handle_JoinRoom(S, userid[1], roomid[1], rnd)
               ELSE IF action.tag = "StartGame" THEN handle_StartGame(S, userid[1], roomid[1], rnd)
               ELSE handle_MakeMove(S, userid[1], roomid[1], action)

\* ServerState::handle_action
handle_action(S, clientid, action, rnd) ==
    CASE action.tag = "Login" ->
            LET S1 == logout(S, clientid)
                S2 == [S1 EXCEPT !.clients[clientid].userid = Some(action.userid)]
                S3 == [S2 EXCEPT !.users =
                         [u \in DOMAIN @ \cup {action.userid} |->
                            IF u = action.userid THEN [sockets |-> <<>>] ELSE @[u]]]
            IN Respond(S3, room_list(S3))
      [] action.tag = "Logout" -> Respond(logout(S, clientid), NotLoggedIn)
      [] action.tag = "LeaveRoom" ->
            LET S1 == leave_room(S, clientid) IN Respond(S1, room_list(S1))
      [] OTHER ->
            LET userid == S.clients[clientid].userid
                roomid == S.clients[clientid].roomid
            IN IF userid = None THEN Respond(S, NotLoggedIn)
               ELSE IF action.tag = "NewRoom" THEN handle_NewRoom(S, clientid, userid[1], action)
               ELSE IF action.tag = "WatchRoom" THEN handle_WatchRoom(S, clientid, userid[1], action)
               ELSE IF roomid = None THEN Silent(S)
               ELSE IF action.tag = "JoinRoom" THEN handle_JoinRoom(S, userid[1], roomid[1], rnd)
               ELSE IF action.tag = "StartGame" THEN handle_StartGame(S, userid[1], roomid[1], rnd)
               ELSE handle_MakeMove(S, userid[1], roomid[1], action)

\* fan_out computing the view once, for the first watcher's user
fan_out_one_view(S, roomid) ==
    [i \in 1..Len(watchers(S, roomid)) |->
        [to |-> watchers(S, roomid)[i],
         msg |-> RoomMsg(to_view(room(S, roomid),
                                 S.clients[watchers(S, roomid)[1]].userid[1]))]]

\* The fan-out loop of handle_action (lines 186-192): one Room message per
\* watcher, in the order of the watcher list, each for that watcher's user.
fan_out(S, roomid) ==
    [i \in 1..Len(watchers(S, roomid)) |->
        LET w == watchers(S, roomid)[i]
        IN [to |-> w, msg |-> RoomMsg(to_view(room(S, roomid), S.clients[w].userid[1]))]]

\* ServerState::connect
connect(S, clientid) ==
    [S EXCEPT !.clients = [c \in DOMAIN @ \cup {clientid} |->
                             IF c = clientid THEN [userid |-> None, roomid |-> None] ELSE @[c]]]

\* disconnect putting the room the socket watched back to waiting for players
disconnect_reopens(S, clientid) ==
    LET cl == S.clients[clientid]
        S1 == [S EXCEPT !.clients = [c \in DOMAIN @ \ {clientid} |-> @[c]]]
        S2 == IF cl.roomid # None
              THEN [S1 EXCEPT !.rooms[cl.roomid[1] + 1].watchers = Retain(@, clientid),
                              !.rooms[cl.roomid[1] + 1].room.state =
                                  WaitingForPlayers(Len(room(S, cl.roomid[1]).players),
                                                    Len(room(S, cl.roomid[1]).players))]
              ELSE S1
    IN IF cl.userid # None
       THEN [S2 EXCEPT !.users[cl.userid[1]].sockets = Retain(@, clientid)]
       ELSE S2

\* disconnect emptying the watcher list of the room the socket watched
disconnect_drops_watchers(S, clientid) ==
    LET cl == S.clients[clientid]
        S1 == [S EXCEPT !.clients = [c \in DOMAIN @ \ {clientid} |-> @[c]]]
        S2 == IF cl.roomid # None
              THEN [S1 EXCEPT !.rooms[cl.roomid[1] + 1].watchers = << >>]
              ELSE S1
    IN IF cl.userid # None
       THEN [S2 EXCEPT !.users[cl.userid[1]].sockets = Retain(@, clientid)]
       ELSE S2

\* disconnect taking the user of the socket out of the players of the room
\* the socket watched
disconnect_unjoins(S, clientid) ==
    LET cl == S.clients[clientid]
        S1 == [S EXCEPT !.clients = [c \in DOMAIN @ \ {clientid} |-> @[c]]]
        S2 == IF cl.roomid # None
              THEN [S1 EXCEPT !.rooms[cl.roomid[1] + 1].watchers = Retain(@, clientid),
                              !.rooms[cl.roomid[1] + 1].room.players =
                                  IF cl.userid = None THEN @ ELSE Retain(@, cl.userid[1])]
              ELSE S1
    IN IF cl.userid # None
       THEN [S2 EXCEPT !.users[cl.userid[1]].sockets = Retain(@, clientid)]
       ELSE S2

\* ServerState::disconnect
disconnect(S, clientid) ==
    LET cl == S.clients[clientid]
        S1 == [S EXCEPT !.clients = [c \in DOMAIN @ \ {clientid} |-> @[c]]]
        S2 == IF cl.roomid # None
              THEN [S1 EXCEPT !.rooms[cl.roomid[1] + 1].watchers = Retain(@, clientid)]
              ELSE S1
    IN IF cl.userid # None
       THEN [S2 EXCEPT !.users[cl.userid[1]].sockets = Retain(@, clientid)]
       ELSE S2

----------------------------------------------------------------------------
(* The websocket frames between the server and the interactive client of   *)
(* turnbased-game-server/src/client.rs.                                     *)

\* Sink::send (server.rs lines 20-25): the response goes out as a
\* Message::Text frame holding its JSON text.
Sink_send(response) == [kind |-> "Text", data |-> response]

\* The receive loop of start_client (client.rs lines 57-88) returns at once
\* on a frame that is not Message::Binary; only a Binary frame is decoded
\* and shown.
ws_to_stdout_processes(frame) == frame.kind = "Binary"

----------------------------------------------------------------------------
(* The server as a state machine.  Every step is one critical section of   *)
(* the state mutex: Server::handle_action, or the connect / disconnect of  *)
(* Server::handle_connection.  sent is what the step enqueued to the sinks, *)
(* in order.  A panic inside the critical section     *)
(* poisons the mutex, after which every lock().unwrap() panics.             *)

State == [clients |-> clients, users |-> users, rooms |-> rooms]

\* The moves offered to MakeMove.
Moves == {Play(1), Play(6)}

\* The settings offered to NewRoom.
Settings == {"Base"}

\* No connection task has started: the mutex is free, every internal channel
\* is empty and nothing was written to a websocket.
NoConnections ==
    /\ lock = None
    /\ crit = [c \in ClientIds |-> None]
    /\ task = [c \in ClientIds |-> "start"]
    /\ queue = [c \in ClientIds |-> << >>]
    /\ wire = [c \in ClientIds |-> None]

Init ==
    /\ clients = << >>
    /\ users = << >>
    /\ rooms = << >>
    /\ poisoned = FALSE
    /\ sent = << >>
    /\ game = << >>
    /\ outcome = << >>
    /\ view = << >>
    /\ NoConnections

\* The messages one call of Server::handle_action enqueues, in order.
Enqueued(clientid, r) ==
    IF r.panic THEN << >>
    ELSE (IF r.dirty # None THEN fan_out(r.S, r.dirty[1]) ELSE << >>)
         \o (IF r.resp # None THEN <<[to |-> clientid, msg |-> r.resp[1]]>> ELSE << >>)

\* Server::handle_action (lines 318-323)
Handle(clientid, action, rnd) ==
    /\ ~poisoned
    /\ clientid \in DOMAIN clients
    /\ \E r \in {handle_action(State, clientid, action, rnd)} :
          /\ clients' = r.S.clients
          /\ users' = r.S.users
          /\ rooms' = r.S.rooms
          /\ poisoned' = r.panic
          /\ sent' = Enqueued(clientid, r)
    /\ UNCHANGED gameVars
    /\ UNCHANGED connVars

Connect(clientid) ==
    /\ ~poisoned
    /\ clientid \notin DOMAIN clients
    /\ clients' = connect(State, clientid).clients
    /\ sent' = <<[to |-> clientid, msg |-> NotLoggedIn]>>
    /\ UNCHANGED <<users, rooms, poisoned, game, outcome, view>>
    /\ UNCHANGED connVars

Disconnect(clientid) ==
    /\ ~poisoned
    /\ clientid \in DOMAIN clients
    /\ LET S1 == disconnect(State, clientid)
       IN /\ clients' = S1.clients
          /\ users' = S1.users
          /\ rooms' = S1.rooms
    /\ sent' = << >>
    /\ UNCHANGED <<poisoned, game, outcome, view>>
    /\ UNCHANGED connVars

DoLogin(c, u) == Handle(c, Login(u), Rnd0)

DoLogout(c) == Handle(c, Logout, Rnd0)

DoLeaveRoom(c) == Handle(c, LeaveRoom, Rnd0)

DoNewRoom(c, size, settings) ==
    /\ Len(rooms) < MaxRooms
    /\ Handle(c, NewRoom(size[1], size[2], settings), Rnd0)

DoWatchRoom(c, roomid) == Handle(c, WatchRoom(roomid), Rnd0)

DoJoinRoom(c, rnd) == Handle(c, JoinRoom, rnd)

DoStartGame(c, rnd) == Handle(c, StartGame, rnd)

\* The game the socket's watched room runs, if any.
WatchedGame(c) ==
    IF c \in DOMAIN clients /\ clients[c].roomid # None
       /\ clients[c].roomid[1] < Len(rooms)
       /\ room(State, clients[c].roomid[1]).state.tag # "WaitingForPlayers"
    THEN room(State, clients[c].roomid[1]).state.game
    ELSE None

DoMakeMove(c, mov) ==
    /\ WatchedGame(c) # None =>
          \/ Len(WatchedGame(c)[1].move_log) < MaxMoves
          \/ has_ended(WatchedGame(c)[1])
    /\ Handle(c, MakeMove(mov), Rnd0)

Next ==
    \/ \E c \in ClientIds : Connect(c)
    \/ \E c \in ClientIds : Disconnect(c)
    \/ \E c \in ClientIds, u \in UserIds : DoLogin(c, u)
    \/ \E c \in ClientIds : DoLogout(c)
    \/ \E c \in ClientIds : DoLeaveRoom(c)
    \/ \E c \in ClientIds, size \in RoomSizes, settings \in Settings : DoNewRoom(c, size, settings)
    \/ \E c \in ClientIds, roomid \in WatchIds : DoWatchRoom(c, roomid)
    \/ \E c \in ClientIds, rnd \in Rnds : DoJoinRoom(c, rnd)
    \/ \E c \in ClientIds, rnd \in Rnds : DoStartGame(c, rnd)
    \/ \E c \in ClientIds, mov \in Moves : DoMakeMove(c, mov)

Spec == Init /\ [][Next]_vars

----------------------------------------------------------------------------
(* The lobby: the same server with room for a second room, two users and   *)
(* no moves, so that sockets can go from one room to another.              *)

\* The number of rooms NewRoom may create in the lobby.
MaxLobbyRooms == 2

\* Names offered to Login in the lobby.
LobbyUsers == {"alice", "bob"}

\* (min_players, max_players) pairs offered to NewRoom in the lobby.
LobbySizes == {<<2, 2>>, <<2, 3>>}

LobbyNewRoom(c, size) ==
    /\ Len(rooms) < MaxLobbyRooms
    /\ Handle(c, NewRoom(size[1], size[2], "Base"), Rnd0)

NextLobby ==
    \/ \E c \in ClientIds : Connect(c)
    \/ \E c \in ClientIds : Disconnect(c)
    \/ \E c \in ClientIds, u \in LobbyUsers : DoLogin(c, u)
    \/ \E c \in ClientIds : DoLogout(c)
    \/ \E c \in ClientIds : DoLeaveRoom(c)
    \/ \E c \in ClientIds, size \in LobbySizes : LobbyNewRoom(c, size)
    \/ \E c \in ClientIds, roomid \in WatchIds : DoWatchRoom(c, roomid)
    \/ \E c \in ClientIds : DoJoinRoom(c, Rnd0)

SpecLobby == Init /\ [][NextLobby]_vars

----------------------------------------------------------------------------
(* The lobby fed with raw websocket frames: the closure of lines 300-309    *)
(* decodes each frame and calls Server::handle_action only if it decodes.   *)

\* Frames that are no JSON encoding of an Action.
BadFrames == {"", "{", "\"Nonsense\"", "{\"Login\":7}"}

\* The frames offered to a socket.
Frames == BadFrames \cup {"\"Logout\"", "\"LeaveRoom\"", "\"JoinRoom\""}

\* A decoder that takes any frame it does not know for a Logout
from_slice_lenient(frame) ==
    CASE frame = "\"Logout\"" -> Some(Logout)
      [] frame = "\"LeaveRoom\"" -> Some(LeaveRoom)
      [] frame = "\"JoinRoom\"" -> Some(JoinRoom)
      [] frame = "\"StartGame\"" -> Some(StartGame)
      [] OTHER -> Some(Logout)

\* serde_json::from_slice::<Action>(frame) of line 301: Option of the Result
from_slice(frame) ==
    CASE frame = "\"Logout\"" -> Some(Logout)
      [] frame = "\"LeaveRoom\"" -> Some(LeaveRoom)
      [] frame = "\"JoinRoom\"" -> Some(JoinRoom)
      [] frame = "\"StartGame\"" -> Some(StartGame)
      [] OTHER -> None

\* The closure of try_for_each (lines 300-309) on one frame of a socket
\* whose task is alive.
Incoming(c, frame) ==
    /\ ~poisoned
    /\ c \in DOMAIN clients
    /\ IF from_slice(frame) # None
       THEN Handle(c, from_slice(frame)[1], Rnd0)
       ELSE /\ sent' = << >>
            /\ UNCHANGED <<clients, users, rooms, poisoned>>
            /\ UNCHANGED gameVars
            /\ UNCHANGED connVars

NextFrames ==
    \/ NextLobby
    \/ \E c \in ClientIds, frame \in Frames : Incoming(c, frame)

SpecFrames == Init /\ [][NextFrames]_vars

----------------------------------------------------------------------------
(* turnbased-game-server/src/bin/server.rs: the stand-alone server.  Its    *)
(* dispatcher has Connect and Disconnect as actions of their own, a NewRoom *)
(* without fields that no arm handles, and a Login that binds the name to   *)
(* the socket without touching users.                                       *)

BinConnect == [tag |-> "Connect"]

BinDisconnect == [tag |-> "Disconnect"]

BinNewRoom == [tag |-> "NewRoom"]

\* bin/server.rs ServerState::logout: [S, panic]; the unwrap of
\* users.get_mut(..) panics when the name has no User record.
bin_logout(S, clientid) ==
    LET S1 == leave_room(S, clientid)
        userid == S1.clients[clientid].userid
    IN IF userid = None THEN [S |-> S1, panic |-> FALSE]
       ELSE IF userid[1] \notin DOMAIN S1.users THEN [S |-> S1, panic |-> TRUE]
       ELSE [S |-> [S1 EXCEPT !.users[userid[1]].sockets = Retain(@, clientid),
                              !.clients[clientid].userid = None],
             panic |-> FALSE]

\* bin/server.rs handle_action, Action::Disconnect (lines 219-233)
bin_handle_Disconnect(S, clientid) ==
    LET cl == S.clients[clientid]
        S1 == [S EXCEPT !.clients = [c \in DOMAIN @ \ {clientid} |-> @[c]]]
    IN IF cl.roomid # None /\ cl.roomid[1] >= Len(S.rooms) THEN Panic(S1)
       ELSE LET S2 == IF cl.roomid # None
                      THEN [S1 EXCEPT !.rooms[cl.roomid[1] + 1].watchers = Retain(@, clientid)]
                      ELSE S1
            IN IF cl.userid = None THEN Silent(S2)
               ELSE IF cl.userid[1] \notin DOMAIN S2.users THEN Panic(S2)
               ELSE Silent([S2 EXCEPT !.users[cl.userid[1]].sockets = Retain(@, clientid)])

\* bin/server.rs ServerState::handle_action (lines 199-320)
bin_handle_action(S, clientid, action, rnd) ==
    CASE action.tag = "Connect" -> Respond(connect(S, clientid), NotLoggedIn)
      [] action.tag = "Disconnect" -> bin_handle_Disconnect(S, clientid)
      [] action.tag = "Login" ->
            LET lo == bin_logout(S, clientid)
            IN IF lo.panic THEN Panic(lo.S)
               ELSE LET S2 == [lo.S EXCEPT !.clients[clientid].userid = Some(action.userid)]
                    IN Respond(S2, room_list(S2))
      [] action.tag = "Logout" ->
            LET lo == bin_logout(S, clientid)
            IN IF lo.panic THEN Panic(lo.S) ELSE Respond(lo.S, NotLoggedIn)
      [] action.tag = "LeaveRoom" ->
            LET S1 == leave_room(S, clientid) IN Respond(S1, room_list(S1))
      [] OTHER ->
            LET userid == S.clients[clientid].userid
                roomid == S.clients[clientid].roomid
            IN IF userid = None THEN Respond(S, NotLoggedIn)
               ELSE IF action.tag = "WatchRoom" THEN handle_WatchRoom(S, clientid, userid[1], action)
               ELSE IF roomid = None THEN Silent(S)
               ELSE IF action.tag = "JoinRoom" THEN handle_JoinRoom(S, userid[1], roomid[1], rnd)
               ELSE IF action.tag = "StartGame" THEN handle_StartGame(S, userid[1], roomid[1], rnd)
               ELSE IF action.tag = "MakeMove" THEN handle_MakeMove(S, userid[1], roomid[1], action)
               ELSE Panic(S)

\* bin/server.rs Server::handle_action (lines 397-402); Connect is the first
\* call of a connection and every other action comes after it.
BinHandle(clientid, action) ==
    /\ ~poisoned
    /\ IF action.tag = "Connect" THEN clientid \notin DOMAIN clients
       ELSE clientid \in DOMAIN clients
    /\ \E r \in {bin_handle_action(State, clientid, action, Rnd0)} :
          /\ clients' = r.S.clients
          /\ users' = r.S.users
          /\ rooms' = r.S.rooms
          /\ poisoned' = r.panic
          /\ sent' = Enqueued(clientid, r)
    /\ UNCHANGED gameVars
    /\ UNCHANGED connVars

NextBin ==
    \/ \E c \in ClientIds : BinHandle(c, BinConnect)
    \/ \E c \in ClientIds : BinHandle(c, BinDisconnect)
    \/ \E c \in ClientIds, u \in UserIds : BinHandle(c, Login(u))
    \/ \E c \in ClientIds : BinHandle(c, Logout)
    \/ \E c \in ClientIds : BinHandle(c, LeaveRoom)
    \/ \E c \in ClientIds : BinHandle(c, BinNewRoom)
    \/ \E c \in ClientIds, roomid \in WatchIds : BinHandle(c, WatchRoom(roomid))
    \/ \E c \in ClientIds : BinHandle(c, JoinRoom)
    \/ \E c \in ClientIds : BinHandle(c, StartGame)
    \/ \E c \in ClientIds, mov \in Moves : BinHandle(c, MakeMove(mov))

SpecBin == Init /\ [][NextBin]_vars

----------------------------------------------------------------------------
(* The connection tasks of Server::handle_connection, one per socket, with  *)
(* the steps inside a critical section taken one at a time.  task[c] is     *)
(* where the task of socket c stands: "start" (before line 297),            *)
(* "incoming" (the loop of lines 299-309), "ended" (line 312 returned),     *)
(* "finished" (after line 315), or "panicked_connect", "panicked_action",   *)
(* "panicked_disconnect" when the task died at one of the three places it   *)
(* takes the lock.  lock is the holder of the state mutex, crit[c] what the *)
(* holder still has to do, queue[c] the internal channel of socket c and    *)
(* wire[c] the last message its forwarder wrote to the websocket.           *)

\* Messages an internal channel may hold before no new action is offered.
MaxQueue == 2

\* Moves made in the room of the connection model before no more are offered.
MaxConnMoves == 1

\* The name each socket logs in with.
ConnUser(c) == IF c = "c1" THEN "alice" ELSE "bob"

\* The actions a socket may send.
ConnActions(c) ==
    {Login(ConnUser(c)), NewRoom(2, 2, "Base"), WatchRoom(0), JoinRoom, MakeMove(Play(1))}

InitConn ==
    /\ clients = << >>
    /\ users = << >>
    /\ rooms = << >>
    /\ poisoned = FALSE
    /\ sent = << >>
    /\ game = << >>
    /\ outcome = << >>
    /\ view = << >>
    /\ NoConnections

\* A lock that lets a task in while another task holds the guard
MutexIgnored == TRUE

\* Mutex::lock returns only when no other task holds the guard.
MutexFree == lock = None

\* A channel that puts the message in front of the ones already waiting
channel_send_front(q, m) == <<m>> \o q

\* UnboundedSender::unbounded_send of Sink::send: the message goes to the
\* back of the channel.
channel_send(q, m) == Append(q, m)

\* What the holder of the lock has left to do: the direct response and the
\* room to fan out, and how many of the messages it has enqueued.
Section(op, resp, dirty) == Some([op |-> op, resp |-> resp, dirty |-> dirty, k |-> 0])

\* The messages the critical section of socket c enqueues, in order; the
\* views of the fan-out loop are taken from the state as it is.
SectionMessages(c) ==
    Enqueued(c, [S |-> State, resp |-> crit[c][1].resp, dirty |-> crit[c][1].dirty,
                 panic |-> FALSE])

\* line 297: lock, connect.
ConnectBegin(c) ==
    /\ task[c] = "start"
    /\ ~poisoned
    /\ MutexFree
    /\ lock' = Some(c)
    /\ clients' = connect(State, c).clients
    /\ crit' = [crit EXCEPT ![c] = Section("connect", Some(NotLoggedIn), None)]
    /\ UNCHANGED <<users, rooms, poisoned, sent, game, outcome, view, task, queue, wire>>

\* lines 302, 319-320: lock, ServerState::handle_action up to its fan-out.
ActionBegin(c, action) ==
    /\ task[c] = "incoming"
    /\ crit[c] = None
    /\ ~poisoned
    /\ MutexFree
    /\ \A d \in ClientIds : Len(queue[d]) < MaxQueue
    /\ action.tag = "NewRoom" => Len(rooms) < MaxRooms
    /\ (action.tag = "MakeMove" /\ WatchedGame(c) # None) =>
          Len(WatchedGame(c)[1].move_log) < MaxConnMoves
    /\ \E r \in {handle_action(State, c, action, Rnd0)} :
          /\ clients' = r.S.clients
          /\ users' = r.S.users
          /\ rooms' = r.S.rooms
          /\ poisoned' = r.panic
          /\ IF r.panic
             THEN /\ task' = [task EXCEPT ![c] = "panicked_action"]
                  /\ UNCHANGED <<lock, crit>>
             ELSE /\ lock' = Some(c)
                  /\ crit' = [crit EXCEPT ![c] = Section("action", r.resp, r.dirty)]
                  /\ UNCHANGED task
    /\ UNCHANGED <<sent, game, outcome, view, queue, wire>>

\* One Sink::send of the holder: lines 189-191, 228 or 321.
Send(c) ==
    /\ crit[c] # None
    /\ crit[c][1].k < Len(SectionMessages(c))
    /\ LET m == SectionMessages(c)[crit[c][1].k + 1]
       IN queue' = [queue EXCEPT ![m.to] = channel_send(@, m.msg)]
    /\ crit' = [crit EXCEPT ![c][1].k = @ + 1]
    /\ UNCHANGED <<clients, users, rooms, poisoned, sent, game, outcome, view, lock, task, wire>>

\* The guard is dropped: the end of line 297, of Server::handle_action, or
\* of line 315.
End(c) ==
    /\ crit[c] # None
    /\ crit[c][1].k = Len(SectionMessages(c))
    /\ lock' = None
    /\ crit' = [crit EXCEPT ![c] = None]
    /\ task' = [task EXCEPT ![c] = IF crit[c][1].op = "disconnect" THEN "finished"
                                    ELSE "incoming"]
    /\ UNCHANGED <<clients, users, rooms, poisoned, sent, game, outcome, view, queue, wire>>

\* line 312: the select returns, because the incoming stream ended, with or
\* without an error, or because the forwarder stopped.
StreamEnd(c) ==
    /\ task[c] = "incoming"
    /\ crit[c] = None
    /\ task' = [task EXCEPT ![c] = "ended"]
    /\ UNCHANGED <<clients, users, rooms, poisoned, sent, game, outcome, view, lock, crit, queue, wire>>

\* line 315: lock, disconnect.
DisconnectBegin(c) ==
    /\ task[c] = "ended"
    /\ ~poisoned
    /\ MutexFree
    /\ lock' = Some(c)
    /\ LET S1 == disconnect(State, c)
       IN /\ clients' = S1.clients
          /\ users' = S1.users
          /\ rooms' = S1.rooms
    /\ crit' = [crit EXCEPT ![c] = Section("disconnect", None, None)]
    /\ UNCHANGED <<poisoned, sent, game, outcome, view, task, queue, wire>>

\* lock().unwrap() on the poisoned mutex (lines 297, 319, 315): the task
\* panics where it stands.
LockPoisoned(c) ==
    /\ poisoned
    /\ task[c] \in {"start", "incoming", "ended"}
    /\ task' = [task EXCEPT ![c] = CASE @ = "start" -> "panicked_connect"
                                      [] @ = "incoming" -> "panicked_action"
                                      [] @ = "ended" -> "panicked_disconnect"]
    /\ UNCHANGED <<clients, users, rooms, poisoned, sent, game, outcome, view, lock, crit, queue, wire>>

\* line 293: the forwarder takes the message at the front of the internal
\* channel and writes it to the websocket; it is polled by the task of the
\* socket, between two incoming messages.
Forward(c) ==
    /\ task[c] = "incoming"
    /\ crit[c] = None
    /\ queue[c] # << >>
    /\ wire' = [wire EXCEPT ![c] = Some(Head(queue[c]))]
    /\ queue' = [queue EXCEPT ![c] = Tail(@)]
    /\ UNCHANGED <<clients, users, rooms, poisoned, sent, game, outcome, view, lock, crit, task>>

NextConn ==
    \/ \E c \in ClientIds : ConnectBegin(c)
    \/ \E c \in ClientIds : \E action \in ConnActions(c) : ActionBegin(c, action)
    \/ \E c \in ClientIds : Send(c)
    \/ \E c \in ClientIds : End(c)
    \/ \E c \in ClientIds : StreamEnd(c)
    \/ \E c \in ClientIds : DisconnectBegin(c)
    \/ \E c \in ClientIds : LockPoisoned(c)
    \/ \E c \in ClientIds : Forward(c)

SpecConn == InitConn /\ [][NextConn]_vars

----------------------------------------------------------------------------
(* The Game on its own, driven through its GameT interface: Init draws the *)
(* players, the variant and the random draws of Game::new, and every step  *)
(* is one GameT::make_move; outcome is the Result it returned.             *)

\* The player lists offered to Game::new.
GamePlayers == {<<"alice", "bob">>, <<"alice", "bob", "carol">>}

\* The moves offered to GameT::make_move.
GameMoves ==
    {Play(1), Play(6), Discard(1), Discard(6),
     Hint(0, ValueHint(1)), Hint(1, ColorHint(0)), Hint(1, ValueHint(6)),
     Hint(1, ColorHint(Multi)), Hint(3, ValueHint(1)),
     HintOtherPlayer(ValueHint(2))}

\* The names offered to GameT::make_move.
GameUsers == {"alice", "bob", "dave"}

InitGame ==
    /\ clients = << >>
    /\ users = << >>
    /\ rooms = << >>
    /\ poisoned = FALSE
    /\ sent = << >>
    /\ \E players \in GamePlayers, variant \in GameVariants, rnd \in Rnds :
          game = GameT_new(players, variant, rnd)
    /\ outcome = None
    /\ view = None
    /\ NoConnections

GameMove(player, mov) ==
    /\ Len(game.move_log) < MaxGameMoves \/ has_ended(game)
    /\ \E r \in {GameT_make_move(game, player, mov)} :
          /\ game' = r.g
          /\ outcome' = Some(r.err)
    /\ view' = None
    /\ UNCHANGED serverVars
    /\ UNCHANGED connVars

\* What the last to_view call since the last move left: the player it was
\* for, the view, and whether the call panicked.
Viewed(player, v, panic) == Some([by |-> player, v |-> v, panic |-> panic])

\* GameT::to_view of the game for a name.
GameView(player) ==
    /\ view' = Viewed(player, GameT_to_view(game, player), FALSE)
    /\ UNCHANGED <<game, outcome>>
    /\ UNCHANGED serverVars
    /\ UNCHANGED connVars

\* GameT::to_view of the view the last to_view call returned.
GameReview(player) ==
    /\ view # None
    /\ ~view[1].panic
    /\ view' = IF GameT_to_view_panics(view[1].v, player)
               THEN Viewed(player, view[1].v, TRUE)
               ELSE Viewed(player, GameT_to_view(view[1].v, player), FALSE)
    /\ UNCHANGED <<game, outcome>>
    /\ UNCHANGED serverVars
    /\ UNCHANGED connVars

NextGame ==
    \/ \E player \in GameUsers, mov \in GameMoves : GameMove(player, mov)
    \/ \E player \in GameUsers : GameView(player)
    \/ \E player \in GameUsers : GameReview(player)

SpecGame == InitGame /\ [][NextGame]_vars

----------------------------------------------------------------------------
(* The end of a game.  A deck of 40 to 50 cards is not drawn empty within   *)
(* MaxGameMoves moves, so this specification plays a fixed opening first:   *)
(* the player to move hints the next player when the hints are at their     *)
(* maximum and discards its first card otherwise, until one card is left in *)
(* the deck.  From there on every player and every move is offered.         *)

\* Moves accepted after the opening before moves are no longer offered.
MaxEndMoves == 5

\* The moves offered to GameT::make_move at the end of a game.
EndMoves ==
    {Play(1), Play(6), Discard(1), Hint(0, ValueHint(1)), Hint(1, ValueHint(1)),
     HintOtherPlayer(ValueHint(2))}

\* The names offered to GameT::make_move at the end of a game.
EndUsers == {"alice", "bob", "carol"}

\* The number of cards in the deck once Game::new dealt the hands.
DeckAfterDeal(g) ==
    Len(DeckNew(g.variant, "sorted").cards) - Len(g.players) * g.cards_per_player

\* The move the player to move makes in the opening.
OpeningMove(g) ==
    IF g.hints = MAX_HINTS
    THEN Hint((g.game_state.player + 1) % Len(g.players), ValueHint(1))
    ELSE Discard(1)

\* The number of moves of the opening: a hint and a discard for every card
\* drawn.
OpeningLen(g) == 2 * (DeckAfterDeal(g) - 1)

\* The opening is being played.
InOpening(g) == DeckLen(g.deck) > 1 /\ Len(g.move_log) < OpeningLen(g)

InitEnd ==
    /\ clients = << >>
    /\ users = << >>
    /\ rooms = << >>
    /\ poisoned = FALSE
    /\ sent = << >>
    /\ \E players \in GamePlayers, variant \in GameVariants, rnd \in Rnds :
          game = GameT_new(players, variant, rnd)
    /\ outcome = None
    /\ view = None
    /\ NoConnections

\* GameT::make_move of the opening move by the player to move.
OpeningStep ==
    /\ InOpening(game)
    /\ \E r \in {GameT_make_move(game, game.players[game.game_state.player + 1],
                                  OpeningMove(game))} :
          /\ game' = r.g
          /\ outcome' = Some(r.err)
    /\ view' = None
    /\ UNCHANGED serverVars
    /\ UNCHANGED connVars

\* GameT::make_move at the end of a game.
EndMove(player, mov) ==
    /\ ~InOpening(game)
    /\ Len(game.move_log) < OpeningLen(game) + MaxEndMoves \/ has_ended(game)
    /\ \E r \in {GameT_make_move(game, player, mov)} :
          /\ game' = r.g
          /\ outcome' = Some(r.err)
    /\ view' = None
    /\ UNCHANGED serverVars
    /\ UNCHANGED connVars

NextEnd ==
    \/ OpeningStep
    \/ \E player \in EndUsers, mov \in EndMoves : EndMove(player, mov)

SpecEnd == InitEnd /\ [][NextEnd]_vars

----------------------------------------------------------------------------
(* A game in which a stack is about to be completed.  Four cards of one     *)
(* colour are not played within MaxGameMoves moves, so this specification   *)
(* starts a game of two players after eight moves played through            *)
(* Game::make_move itself, with the deck in the order that deals the first  *)
(* colour to the two hands: one failed play, then the 1 to 4 of the first   *)
(* colour and the 1 to 3 of the second, leaving the 5 of the first colour   *)
(* second in the hand of the player to move.                                *)

\* Moves accepted after the eight before moves are no longer offered.
MaxFiveMoves == 3

\* The eight moves, each made by the player whose turn it is.
FiveOpening ==
    <<Play(1), Play(1), Play(5), Play(3), Play(1), Play(5), Play(1), Play(5)>>

\* The moves offered to GameT::make_move after them.
FiveMoves ==
    {Play(1), Play(2), Play(6), Discard(1), HintOtherPlayer(ValueHint(2)),
     Hint(1, ColorHint(Multi))}

RECURSIVE Replay(_, _)
\* Game::make_move applied to the moves in turn, each by the player to move.
Replay(g, moves) ==
    IF moves = << >> THEN g
    ELSE Replay(GameMakeMove(g, g.game_state.player, Head(moves)).g, Tail(moves))

InitFive ==
    /\ clients = << >>
    /\ users = << >>
    /\ rooms = << >>
    /\ poisoned = FALSE
    /\ sent = << >>
    /\ \E variant \in GameVariants :
          game = Replay(GameT_new(<<"alice", "bob">>, variant,
                                  [order |-> "reversed", start |-> "last",
                                   shuffle |-> "reversed"]),
                        FiveOpening)
    /\ outcome = None
    /\ view = None
    /\ NoConnections

\* GameT::make_move after the eight moves.
FiveMove(player, mov) ==
    /\ Len(game.move_log) < Len(FiveOpening) + MaxFiveMoves \/ has_ended(game)
    /\ \E r \in {GameT_make_move(game, player, mov)} :
          /\ game' = r.g
          /\ outcome' = Some(r.err)
    /\ view' = None
    /\ UNCHANGED serverVars
    /\ UNCHANGED connVars

NextFive == \E player \in GameUsers, mov \in FiveMoves : FiveMove(player, mov)

SpecFive == InitFive /\ [][NextFive]_vars

----------------------------------------------------------------------------
(* Properties.                                                              *)

PhaseRank(state) ==
    CASE state.tag = "WaitingForPlayers" -> 0
      [] state.tag = "Started" -> 1
      [] state.tag = "Ended" -> 2

IsError(m) == m.type = "Error"

LoggedIn(c) == c \in DOMAIN clients /\ clients[c].userid # None

\* c watches an existing room
Watching(c) ==
    c \in DOMAIN clients /\ clients[c].roomid # None /\ clients[c].roomid[1] < Len(rooms)

\* C1: in every step every room keeps or advances its phase in the order
\* WaitingForPlayers < Started < Ended (no room disappears, a Started room is
\* never again WaitingForPlayers), and a MakeMove on a room taken as Ended is
\* refused by RoomState::make_move whatever the user and the move.
C1_PhaseMonotonic ==
    [][/\ Len(rooms') >= Len(rooms)
       /\ \A i \in 1..Len(rooms) :
            /\ PhaseRank(rooms'[i].room.state) >= PhaseRank(rooms[i].room.state)
            /\ rooms[i].room.state.tag = "Started" =>
                 \A u \in UserIds, mov \in Moves :
                    LET m == RoomState_make_move(Ended(rooms[i].room.state.game), u, mov)
                    IN m.err # None /\ m.state = Ended(rooms[i].room.state.game)]_vars

\* A Started room on which a later JoinRoom was refused.
C1_Witness ==
    \E c \in DOMAIN clients :
        /\ Watching(c)
        /\ room(State, clients[c].roomid[1]).state.tag = "Started"
        /\ sent = <<[to |-> c, msg |-> Error("Room is not waiting for players")]>>

\* C2: a room goes from WaitingForPlayers to Started in a step exactly when
\* the step is a JoinRoom that brings the player count to max, or a StartGame
\* by a joined player with min <= count <= max.
C2_StartedIffFullOrStartInRange ==
    [][\A i \in 1..Len(rooms) :
         LET r == rooms[i].room
             r2 == rooms'[i].room
         IN r.state.tag = "WaitingForPlayers" =>
              /\ r2.state.tag = "Started" =>
                   \/ /\ Len(r2.players) = Len(r.players) + 1
                      /\ Len(r2.players) = r.state.max_players
                   \/ /\ r2.players = r.players
                      /\ r.state.min_players <= Len(r.players)
                      /\ Len(r.players) <= r.state.max_players
              /\ \A c \in ClientIds, rnd \in Rnds :
                   (/\ LoggedIn(c) /\ clients[c].roomid = Some(i - 1)
                    /\ Contains(r.players, clients[c].userid[1])
                    /\ r.state.min_players <= Len(r.players)
                    /\ Len(r.players) <= r.state.max_players
                    /\ DoStartGame(c, rnd))
                   => r2.state.tag = "Started"]_vars

\* The authoritative game of the Started room a Room message shows.
AuthGame(m) == rooms[m.room.roomid + 1].room.state.game[1]

ShowsStarted(m) == m.type = "Room" /\ m.room.state.tag = "Started"

\* C3: every Room message of a Started room enqueued to a socket carries the
\* Game's view for the user logged in on that socket: that user's own hand is
\* Hidden (knowledge only) and the deck is a count, while the other hands are
\* the authoritative ones.
C3_ViewIsForRecipient ==
    \A i \in 1..Len(sent) :
        ShowsStarted(sent[i].msg) =>
            /\ LoggedIn(sent[i].to)
            /\ LET u == clients[sent[i].to].userid[1]
                   auth == AuthGame(sent[i].msg)
                   v == sent[i].msg.room.state.game[1]
               IN /\ v = GameT_to_view(auth, u)
                  /\ \A p \in 1..Len(auth.players) :
                        IF auth.players[p] = u
                        THEN /\ v.hands[p].tag = "Hidden"
                             /\ v.deck = [tag |-> "Hidden", len |-> Len(auth.deck.cards)]
                        ELSE v.hands[p] = auth.hands[p]

\* One step pushed two different views of a Started room to two sockets whose
\* users are both players.
C3_Witness ==
    \E i, j \in 1..Len(sent) :
        /\ sent[i].to # sent[j].to
        /\ ShowsStarted(sent[i].msg) /\ ShowsStarted(sent[j].msg)
        /\ clients[sent[i].to].userid # clients[sent[j].to].userid
        /\ Contains(sent[i].msg.room.players, clients[sent[i].to].userid[1])
        /\ Contains(sent[j].msg.room.players, clients[sent[j].to].userid[1])
        /\ sent[i].msg # sent[j].msg

\* C4: a Room message of a Started room sent to a user who is not one of the
\* room's players never carries the cards of the deck.
C4_SpectatorViewRedacted ==
    \A i \in 1..Len(sent) :
        (/\ ShowsStarted(sent[i].msg)
         /\ LoggedIn(sent[i].to)
         /\ ~Contains(sent[i].msg.room.players, clients[sent[i].to].userid[1]))
        => sent[i].msg.room.state.game[1].deck.tag = "Hidden"

\* The step is a JoinRoom, StartGame or MakeMove of socket c.
RoomStepOf(c) ==
    \/ \E rnd \in Rnds : DoJoinRoom(c, rnd) \/ DoStartGame(c, rnd)
    \/ \E mov \in Moves : DoMakeMove(c, mov)

\* The room view m shows the state of the room auth.
ShowsRoom(m, auth) ==
    /\ m.roomid = auth.roomid
    /\ m.players = auth.players
    /\ m.state.tag = auth.state.tag
    /\ auth.state.tag = "WaitingForPlayers" => m.state = auth.state
    /\ auth.state.tag = "Started" =>
          LET v == m.state.game[1]
              g == auth.state.game[1]
          IN /\ v.move_log = g.move_log /\ v.game_state = g.game_state
             /\ v.hints = g.hints /\ v.lives = g.lives
             /\ v.played = g.played /\ v.discarded = g.discarded

\* C5: a JoinRoom, StartGame or MakeMove of a socket watching room r that is
\* not answered with an error enqueues exactly one Room message showing the
\* new state of r to each watcher of r, the caller among them, and nothing
\* else to anyone.
C5_SuccessFansOutOnce ==
    [][\A c \in ClientIds :
         (/\ LoggedIn(c) /\ Watching(c)
          /\ ~poisoned'
          /\ \A i \in 1..Len(sent') : sent'[i].msg.type = "Room"
          /\ RoomStepOf(c))
         => LET r == clients[c].roomid[1]
                ws == rooms'[r + 1].watchers
            IN /\ Len(sent') = Len(ws)
               /\ \E k \in 1..Len(ws) : ws[k] = c
               /\ \A k \in 1..Len(ws) :
                     Cardinality({i \in 1..Len(sent') : sent'[i].to = ws[k]}) = 1
               /\ \A i \in 1..Len(sent') :
                     ShowsRoom(sent'[i].msg.room, rooms'[r + 1].room)]_vars

\* A move was accepted and its new state pushed to two watching sockets.
C5_Witness ==
    /\ Len(sent) = 2
    /\ sent[1].to # sent[2].to
    /\ \A i \in 1..2 :
          /\ ShowsStarted(sent[i].msg)
          /\ Len(sent[i].msg.room.state.game[1].move_log) = 1

\* C6: a MakeMove by a socket watching a room that fails, because the user is
\* not in the player list, the room is not Started or the Game rejects the
\* move, enqueues exactly one message: an Error to the caller (for a user not
\* in the player list, "User did not join room").
C6_FailedMoveOnlyErrorToCaller ==
    [][\A c \in ClientIds :
         (LoggedIn(c) /\ Watching(c)) =>
           \A mov \in Moves :
             LET rm == room(State, clients[c].roomid[1])
                 u == clients[c].userid[1]
                 notJoined == ~Contains(rm.players, u)
                 notStarted == rm.state.tag # "Started"
                 rejected == /\ rm.state.tag = "Started"
                             /\ GameT_make_move(rm.state.game[1], u, mov).err # None
             IN ((notJoined \/ notStarted \/ rejected) /\ DoMakeMove(c, mov))
                => /\ Len(sent') = 1
                   /\ sent'[1].to = c
                   /\ IsError(sent'[1].msg)
                   /\ notJoined => sent'[1].msg = Error("User did not join room")]_vars

\* The Game refused a move of a socket whose room has a second watcher.
C6_Witness ==
    \E c \in DOMAIN clients :
        /\ Watching(c)
        /\ Len(watchers(State, clients[c].roomid[1])) = 2
        /\ sent = <<[to |-> c, msg |-> Error("Card index out of range.")]>>

\* C7: a move the Game rejects leaves the game exactly as it was.
C7_RejectedMoveLeavesGame ==
    [][(outcome' # None /\ outcome'[1] # None) => game' = game]_vars

\* C8: a NewRoom with min > max or min < 1 is answered with an Error to the
\* caller and changes neither the rooms nor the caller's subscription.
C8_BadNewRoomRejected ==
    [][\A c \in ClientIds, size \in RoomSizes, settings \in Settings :
         (/\ LoggedIn(c)
          /\ size[1] > size[2] \/ size[1] < 1
          /\ DoNewRoom(c, size, settings))
         => /\ Len(sent') = 1 /\ sent'[1].to = c /\ IsError(sent'[1].msg)
            /\ rooms' = rooms
            /\ clients' = clients]_vars

\* C9: a WatchRoom with an id that names no room is answered with an Error to
\* the caller, leaves the server state unchanged and leaves the server able
\* to process later actions.
C9_WatchUnknownRoomRejected ==
    [][\A c \in ClientIds, roomid \in WatchIds :
         (LoggedIn(c) /\ roomid >= Len(rooms) /\ DoWatchRoom(c, roomid))
         => /\ Len(sent') = 1 /\ sent'[1].to = c /\ IsError(sent'[1].msg)
            /\ <<clients, users, rooms>>' = <<clients, users, rooms>>
            /\ ~poisoned']_vars

\* C10: a room whose game has ended is not Started any more: the step of the
\* move that ended the game made the room Ended.
C10_EndedGameEndsRoom ==
    \A i \in 1..Len(rooms) :
        rooms[i].room.state.tag = "Started" => ~has_ended(rooms[i].room.state.game[1])

\* C11: no action of any client is fatal: the dispatcher never panics while
\* it holds the state lock, so the mutex is never poisoned and the server
\* goes on processing the actions of every connected client.
C11_NoFatalError == ~poisoned

\* C14: a Disconnect of socket c removes c from the client table and from the
\* watchers of the room it watched, enqueues nothing, and leaves alone every
\* other socket's user and watched room, every other socket's membership of
\* every watcher list, the users, and every room's players, phase and game.
C14_DisconnectFrame ==
    [][\A c \in ClientIds :
         Disconnect(c) =>
            /\ c \notin DOMAIN clients'
            /\ DOMAIN clients' = DOMAIN clients \ {c}
            /\ \A d \in DOMAIN clients' : clients'[d] = clients[d]
            /\ sent' = << >>
            /\ users' = users
            /\ Len(rooms') = Len(rooms)
            /\ \A i \in 1..Len(rooms) :
                  /\ rooms'[i].room = rooms[i].room
                  /\ ~Contains(rooms'[i].watchers, c)
                  /\ \A d \in ClientIds \ {c} :
                        Contains(rooms'[i].watchers, d) <=> Contains(rooms[i].watchers, d)]_vars

\* One socket is left, watching a Started room, and the last step enqueued
\* nothing: the other socket was disconnected.
C14_Witness ==
    /\ ~poisoned
    /\ sent = << >>
    /\ Cardinality(DOMAIN clients) = 1
    /\ \E c \in DOMAIN clients :
          /\ Watching(c)
          /\ room(State, clients[c].roomid[1]).state.tag = "Started"
          /\ watchers(State, clients[c].roomid[1]) = <<c>>

\* C16: NewRoom, WatchRoom, JoinRoom, StartGame and MakeMove on a socket with
\* no logged-in user enqueue exactly one message, NotLoggedIn to that socket,
\* and leave clients, users and rooms as they were.
C16_LoggedOutGetsNotLoggedIn ==
    [][\A c \in ClientIds :
         (/\ c \in DOMAIN clients
          /\ clients[c].userid = None
          /\ \/ \E size \in RoomSizes, settings \in Settings : DoNewRoom(c, size, settings)
             \/ \E roomid \in WatchIds : DoWatchRoom(c, roomid)
             \/ RoomStepOf(c))
         => /\ sent' = <<[to |-> c, msg |-> NotLoggedIn]>>
            /\ <<clients, users, rooms>>' = <<clients, users, rooms>>
            /\ ~poisoned']_vars

\* A socket without a user was answered NotLoggedIn while another socket
\* watches a room that is waiting for players.
C16_Witness ==
    \E c, d \in DOMAIN clients :
        /\ clients[c].userid = None
        /\ sent = <<[to |-> c, msg |-> NotLoggedIn]>>
        /\ Watching(d)
        /\ room(State, clients[d].roomid[1]).state.tag = "WaitingForPlayers"

\* C17: a JoinRoom on a watched room that is not WaitingForPlayers, or of a
\* user who is already a player, or on a room that already holds max players,
\* enqueues exactly one message, the matching Error to the caller, and leaves
\* every room (players, phase, game, watchers) as it was.
C17_FailedJoinOnlyErrorToCaller ==
    [][\A c \in ClientIds, rnd \in Rnds :
         (LoggedIn(c) /\ Watching(c)) =>
            LET rm == room(State, clients[c].roomid[1])
                u == clients[c].userid[1]
                wrongPhase == rm.state.tag # "WaitingForPlayers"
                joined == Contains(rm.players, u)
                full == rm.state.tag = "WaitingForPlayers"
                        /\ Len(rm.players) = rm.state.max_players
            IN ((wrongPhase \/ joined \/ full) /\ DoJoinRoom(c, rnd))
               => /\ Len(sent') = 1
                  /\ sent'[1].to = c
                  /\ sent'[1].msg =
                        Error(IF wrongPhase THEN "Room is not waiting for players"
                              ELSE IF joined THEN "User is already in room"
                              ELSE "Room is already full")
                  /\ rooms' = rooms
                  /\ clients' = clients]_vars

\* A JoinRoom was refused because the room is full while the room has two
\* watchers.
C17_Witness ==
    \E c \in DOMAIN clients :
        /\ Watching(c)
        /\ Len(watchers(State, clients[c].roomid[1])) = 2
        /\ sent = <<[to |-> c, msg |-> Error("Room is already full")]>>

\* C18: a StartGame by a joined player on a watched room that is already
\* Started or Ended enqueues exactly one message, an Error to the caller: no
\* Room message goes to the watchers.
C18_StartGameWrongPhaseIsError ==
    [][\A c \in ClientIds, rnd \in Rnds :
         (/\ LoggedIn(c) /\ Watching(c)
          /\ Contains(room(State, clients[c].roomid[1]).players, clients[c].userid[1])
          /\ room(State, clients[c].roomid[1]).state.tag \in {"Started", "Ended"}
          /\ DoStartGame(c, rnd))
         => /\ Len(sent') = 1
            /\ sent'[1].to = c
            /\ IsError(sent'[1].msg)]_vars

\* The number of places socket c takes in the watcher lists of all rooms.
WatchCount(c) ==
    Cardinality({p \in (1..Len(rooms)) \X (1..Cardinality(ClientIds) + 1) :
                    p[2] <= Len(rooms[p[1]].watchers) /\ rooms[p[1]].watchers[p[2]] = c})

\* C19: in every state each socket is in the watcher list of at most one room
\* (and a connected socket in exactly the room it records as watched), and a
\* WatchRoom or NewRoom of a socket that watches another room removes it
\* from that room's watchers in the same step.
C19_AtMostOneWatchedRoom ==
    /\ [](\A c \in ClientIds :
            /\ WatchCount(c) <= 1
            /\ (c \in DOMAIN clients /\ ~poisoned) =>
                  \A i \in 1..Len(rooms) :
                     Contains(rooms[i].watchers, c) <=> clients[c].roomid = Some(i - 1))
    /\ [][\A c \in ClientIds :
            (/\ LoggedIn(c) /\ Watching(c)
             /\ \/ \E size \in LobbySizes : LobbyNewRoom(c, size)
                \/ \E roomid \in WatchIds :
                      roomid # clients[c].roomid[1] /\ DoWatchRoom(c, roomid))
            => ~Contains(rooms'[clients[c].roomid[1] + 1].watchers, c)]_vars

\* A socket whose user created room 0 now watches room 1, was just sent the
\* view of room 1, and is no watcher of room 0, which another socket watches.
C19_Witness ==
    /\ Len(rooms) = 2
    /\ \E c, d \in DOMAIN clients :
          /\ c # d
          /\ LoggedIn(c)
          /\ rooms[1].room.players[1] = clients[c].userid[1]
          /\ clients[c].roomid = Some(1)
          /\ rooms[2].watchers = <<c>>
          /\ rooms[1].watchers = <<d>>
          /\ sent = <<[to |-> c, msg |-> RoomMsg(to_view(rooms[2].room, clients[c].userid[1]))]>>

\* C20: a NewRoom{min, max, settings} of user u on socket c appends exactly
\* one room, WaitingForPlayers{min, max} with players [u] and watchers [c],
\* makes it the room c watches, enqueues exactly one message, that room's
\* view to c, and changes no other room (c only leaves the watchers of the
\* room it watched) and no other socket.
C20_NewRoomCreatesOneRoom ==
    [][\A c \in ClientIds, size \in LobbySizes :
         (LoggedIn(c) /\ LobbyNewRoom(c, size)) =>
            LET n == Len(rooms)
                new == [roomid |-> n, settings |-> "Base",
                        players |-> <<clients[c].userid[1]>>,
                        state |-> WaitingForPlayers(size[1], size[2])]
            IN /\ Len(rooms') = n + 1
               /\ rooms'[n + 1] = [room |-> new, watchers |-> <<c>>]
               /\ clients'[c] = [clients[c] EXCEPT !.roomid = Some(n)]
               /\ \A d \in DOMAIN clients \ {c} : clients'[d] = clients[d]
               /\ DOMAIN clients' = DOMAIN clients
               /\ sent' = <<[to |-> c, msg |-> RoomMsg(new)]>>
               /\ \A i \in 1..n :
                     /\ rooms'[i].room = rooms[i].room
                     /\ rooms'[i].watchers = Retain(rooms[i].watchers, c)]_vars

\* A second room was created, by a socket that is its only watcher and the
\* user its only player, next to a first room that is already Started.
C20_Witness ==
    /\ Len(rooms) = 2
    /\ rooms[1].room.state.tag = "Started"
    /\ rooms[2].room.state.tag = "WaitingForPlayers"
    /\ \E c \in DOMAIN clients :
          /\ LoggedIn(c)
          /\ rooms[2] = [room |-> rooms[2].room, watchers |-> <<c>>]
          /\ rooms[2].room.players = <<clients[c].userid[1]>>
          /\ clients[c].roomid = Some(1)
          /\ sent = <<[to |-> c, msg |-> RoomMsg(rooms[2].room)]>>

\* C12: every action, Connect and Disconnect is applied atomically: a task
\* inside its critical section holds the lock and is the only one inside,
\* and from its state change to its last enqueued message no step of another
\* task changes the server state or enqueues a message.
C12_ActionsAtomic ==
    /\ [](\A c \in ClientIds :
            crit[c] # None =>
               /\ lock = Some(c)
               /\ \A d \in ClientIds \ {c} : crit[d] = None)
    /\ [][\A c \in ClientIds :
            (/\ crit[c] # None
             /\ \/ State' # State
                \/ \E d \in ClientIds : Len(queue'[d]) > Len(queue[d]))
            => Send(c)]_vars

\* A socket is in the middle of a fan-out, one of its two Room messages
\* enqueued, while the task of the other socket waits for incoming actions.
C12_Witness ==
    \E c, d \in ClientIds :
        /\ c # d
        /\ crit[c] # None
        /\ crit[c][1].dirty # None
        /\ crit[c][1].k = 1
        /\ Len(SectionMessages(c)) = 2
        /\ task[d] = "incoming"

\* The Room messages of a sequence of messages.
RoomViews(msgs) == SelectSeq(msgs, LAMBDA m : m.type = "Room")

\* How far the room a Room message shows has come: players, phase, moves.
RoomVersion(m) ==
    <<Len(m.room.players), PhaseRank(m.room.state),
      IF m.room.state.tag = "Started" THEN Len(m.room.state.game[1].move_log) ELSE 0>>

\* The lexicographic order on versions.
VersionLeq(a, b) ==
    \/ a[1] < b[1]
    \/ a[1] = b[1] /\ a[2] < b[2]
    \/ a[1] = b[1] /\ a[2] = b[2] /\ a[3] <= b[3]

\* C13: the messages enqueued to a socket are written to it in the order
\* they were enqueued (a new message goes behind the waiting ones, the
\* forwarder writes the oldest), so that the Room messages of one room a
\* socket has last received and still has waiting are in the order of the
\* mutations: never a view of an older state after a view of a newer one.
C13_FifoDelivery ==
    /\ [](\A c \in ClientIds :
            LET v == RoomViews(wire[c] \o queue[c])
            IN \A i, j \in 1..Len(v) :
                  (i < j /\ v[i].room.roomid = v[j].room.roomid)
                  => VersionLeq(RoomVersion(v[i]), RoomVersion(v[j])))
    /\ [][\A c \in ClientIds :
            /\ Len(queue'[c]) > Len(queue[c]) =>
                  SubSeq(queue'[c], 1, Len(queue[c])) = queue[c]
            /\ wire'[c] # wire[c] =>
                  /\ queue[c] # << >>
                  /\ wire'[c] = Some(Head(queue[c]))
                  /\ queue'[c] = Tail(queue[c])]_vars

\* A socket that was written the view of its room waiting for players has
\* the view of the Started room next in its channel.
C13_Witness ==
    \E c \in ClientIds :
        /\ wire[c] # None
        /\ wire[c][1].type = "Room"
        /\ wire[c][1].room.state.tag = "WaitingForPlayers"
        /\ queue[c] # << >>
        /\ ShowsStarted(Head(queue[c]))

\* C15: every connection whose incoming stream or forwarder ended gets its
\* Disconnect, once and after its last action: its task does not die before
\* line 315 has run, only that Disconnect takes the socket out of the client
\* table, and once the task has finished the socket is in no client table
\* or watcher list and nothing is enqueued to it any more.
C15_DisconnectExactlyOnce ==
    /\ [](\A c \in ClientIds :
            /\ task[c] # "panicked_disconnect"
            /\ task[c] = "finished" =>
                  /\ c \notin DOMAIN clients
                  /\ \A i \in 1..Len(rooms) : ~Contains(rooms[i].watchers, c))
    /\ [][\A c \in ClientIds :
            /\ (c \in DOMAIN clients /\ c \notin DOMAIN clients') => DisconnectBegin(c)
            /\ task[c] = "finished" => (task'[c] = "finished" /\ queue'[c] = queue[c])]_vars

\* C21: a Login(name) on a socket, logged in or not, takes the socket out of
\* the watchers of the room it watched, binds it to name with no watched
\* room, leaves every room's players, phase and game and every other socket
\* alone, and enqueues exactly one message: the RoomList to the caller.
C21_LoginLeavesAndBinds ==
    [][\A c \in ClientIds, u \in UserIds :
         DoLogin(c, u) =>
            /\ clients'[c] = [userid |-> Some(u), roomid |-> None]
            /\ DOMAIN clients' = DOMAIN clients
            /\ \A d \in DOMAIN clients \ {c} : clients'[d] = clients[d]
            /\ Len(rooms') = Len(rooms)
            /\ \A i \in 1..Len(rooms) :
                  /\ rooms'[i].room = rooms[i].room
                  /\ rooms'[i].watchers = Retain(rooms[i].watchers, c)
            /\ sent' = <<[to |-> c,
                          msg |-> RoomList([i \in 1..Len(rooms) |->
                                              to_list_item(rooms[i].room)])]>>]_vars

\* A logged-in socket that watches no room was sent the list of the rooms,
\* one of them a room nobody watches any more, created by another user.
C21_Witness ==
    \E c \in DOMAIN clients :
        /\ LoggedIn(c)
        /\ clients[c].roomid = None
        /\ Len(rooms) = 1
        /\ rooms[1].watchers = << >>
        /\ ~Contains(rooms[1].room.players, clients[c].userid[1])
        /\ sent = <<[to |-> c, msg |-> room_list(State)]>>

C24_LoginLogoutLeaveFrame ==
    [][\A c \in ClientIds :
         (\/ \E u \in UserIds : DoLogin(c, u)
          \/ DoLogout(c)
          \/ DoLeaveRoom(c))
         => /\ Len(sent') = 1
            /\ sent'[1].to = c
            /\ Len(rooms') = Len(rooms)
            /\ \A i \in 1..Len(rooms) : rooms'[i].room = rooms[i].room]_vars

\* A player of a Started room no longer watches it, was sent the RoomList,
\* and is still in the room's player list; another socket watches the room.
C24_Witness ==
    \E c, d \in DOMAIN clients :
        /\ c # d
        /\ LoggedIn(c)
        /\ clients[c].roomid = None
        /\ Len(rooms) = 1
        /\ rooms[1].room.state.tag = "Started"
        /\ Contains(rooms[1].room.players, clients[c].userid[1])
        /\ rooms[1].watchers = <<d>>
        /\ sent = <<[to |-> c, msg |-> room_list(State)]>>

\* C25: no room summary of a RoomList carries a Game: a Started or Ended
\* summary has the game replaced by None, and a summary of a waiting room is
\* the room itself.
C25_RoomListHasNoGame ==
    \A i \in 1..Len(sent) :
        sent[i].msg.type = "RoomList" =>
            /\ Len(sent[i].msg.rooms) = Len(rooms)
            /\ \A k \in 1..Len(sent[i].msg.rooms) :
                  LET item == sent[i].msg.rooms[k]
                  IN /\ item.state.tag \in {"Started", "Ended"} => item.state.game = None
                     /\ item.state.tag = "WaitingForPlayers" => item = rooms[k].room
                     /\ item.state.tag = rooms[k].room.state.tag
                     /\ item.players = rooms[k].room.players

\* A RoomList was sent that lists a Started room whose game has a move made.
C25_Witness ==
    \E i \in 1..Len(sent) :
        /\ sent[i].msg.type = "RoomList"
        /\ Len(sent[i].msg.rooms) = 1
        /\ sent[i].msg.rooms[1].state.tag = "Started"
        /\ Len(rooms[1].room.state.game[1].move_log) > 0

\* C23: in every state the socket list of each User record holds exactly the
\* connected sockets that are logged in as that user.
C23_SocketListsMatchLogins ==
    \A u \in DOMAIN users :
        {users[u].sockets[k] : k \in 1..Len(users[u].sockets)}
            = {c \in DOMAIN clients : clients[c].userid = Some(u)}

\* C26: the Game of a Started room has the room's player list, in join
\* order, as its players, so that the in-game index of a user is the user's
\* position in the room's player list.
C26_GamePlayersInJoinOrder ==
    \A i \in 1..Len(rooms) :
        rooms[i].room.state.tag = "Started" =>
            LET r == rooms[i].room
                g == r.state.game[1]
            IN /\ g.players = r.players
               /\ \A k \in 1..Len(r.players) : player_id(g, r.players[k]) = Some(k - 1)

\* C27: the Game of a room is constructed in the step that makes the room
\* Started, from the player list of that moment, and from then on the player
\* list never changes and the state of the room changes only by a MakeMove
\* of a socket watching it, which applies the move to that same Game.
C27_GameConstructedOnce ==
    [][\A i \in 1..Len(rooms) :
         LET r == rooms[i].room
             r2 == rooms'[i].room
         IN /\ (r.state.tag = "WaitingForPlayers" /\ r2.state.tag = "Started") =>
                  \E rnd \in Rnds :
                     r2.state.game = Some(GameT_new(r2.players, r2.settings, rnd))
            /\ r.state.tag \in {"Started", "Ended"} =>
                  /\ r2.players = r.players
                  /\ r2.state.tag = r.state.tag
                  /\ r2.state # r.state =>
                        \E c \in ClientIds, mov \in Moves :
                           /\ DoMakeMove(c, mov)
                           /\ clients[c].roomid = Some(i - 1)
                           /\ r2.state.game =
                                 Some(GameT_make_move(r.state.game[1],
                                                      clients[c].userid[1], mov).g)]_vars

\* A JoinRoom was refused on a Started room in which a move has been made.
C27_Witness ==
    \E c \in DOMAIN clients :
        /\ Watching(c)
        /\ room(State, clients[c].roomid[1]).state.tag = "Started"
        /\ Len(room(State, clients[c].roomid[1]).state.game[1].move_log) > 0
        /\ sent = <<[to |-> c, msg |-> Error("Room is not waiting for players")]>>

\* The answer and the state after a WatchRoom(roomid) of socket c in state S.
Watched(S, c, roomid) == handle_action(S, c, WatchRoom(roomid), Rnd0)

\* C28: a WatchRoom(id) of a logged-in socket on an existing room, followed
\* at once by the same WatchRoom(id), is answered twice with the same Room
\* view and leaves the state after the second as it was after the first,
\* with the socket once in the watchers of the room.
C28_WatchRoomIdempotent ==
    \A c \in ClientIds, roomid \in WatchIds :
        (~poisoned /\ LoggedIn(c) /\ roomid < Len(rooms)) =>
            LET first == Watched(State, c, roomid)
                second == Watched(first.S, c, roomid)
                ws == watchers(second.S, roomid)
            IN /\ first.resp # None /\ first.resp[1].type = "Room"
               /\ second.resp = first.resp
               /\ second.S = first.S
               /\ ~second.panic
               /\ Cardinality({k \in 1..Len(ws) : ws[k] = c}) = 1

\* A socket was answered the view of the room it watches and stands last of
\* the room's two watchers: it came to the room by a WatchRoom.
C28_Witness ==
    \E c, d \in DOMAIN clients :
        /\ c # d
        /\ LoggedIn(c) /\ Watching(c)
        /\ watchers(State, clients[c].roomid[1]) = <<d, c>>
        /\ sent = <<[to |-> c,
                     msg |-> RoomMsg(to_view(room(State, clients[c].roomid[1]),
                                             clients[c].userid[1]))]>>

\* C29: to_view for player p applied to a view that to_view for p returned
\* succeeds and returns that same view.
C29_ToViewIdempotent ==
    [][\A p \in GameUsers :
         (/\ view # None
          /\ view[1].by = p
          /\ ~view[1].panic
          /\ GameReview(p))
         => /\ ~view'[1].panic
            /\ view'[1].v = view[1].v]_vars

\* C30: a frame that does not decode to an Action is dropped: the step
\* enqueues nothing, leaves clients, users and rooms as they were, and leaves
\* the socket connected and the lock sound, so that its next frames are
\* processed.
C30_BadFrameDropped ==
    [][\A c \in ClientIds, frame \in BadFrames :
         Incoming(c, frame) =>
            /\ sent' = << >>
            /\ <<clients, users, rooms>>' = <<clients, users, rooms>>
            /\ c \in DOMAIN clients'
            /\ ~poisoned']_vars

\* Both sockets are connected and watch the same room, and the last step
\* enqueued nothing: it dropped a frame.
C30_Witness ==
    /\ ~poisoned
    /\ sent = << >>
    /\ DOMAIN clients = ClientIds
    /\ Len(rooms) >= 1
    /\ Len(rooms[1].watchers) = 2

\* C31: room identifiers are the indices of the room table: in every state
\* the room at index k-1 (the k-th room created) has identifier k-1, and in
\* every step the table keeps every room at its place with its identifier
\* and grows by at most one room.
C31_RoomIdsSequential ==
    /\ [](\A i \in 1..Len(rooms) : rooms[i].room.roomid = i - 1)
    /\ [][/\ Len(rooms') \in {Len(rooms), Len(rooms) + 1}
          /\ \A i \in 1..Len(rooms) : rooms'[i].room.roomid = rooms[i].room.roomid]_vars

\* A second room was just created and its creator was sent the view of
\* room 1, while room 0 is still in the table.
C31_Witness ==
    /\ Len(rooms) = 2
    /\ rooms[1].room.roomid = 0
    /\ \E c \in DOMAIN clients :
          /\ clients[c].roomid = Some(1)
          /\ sent = <<[to |-> c, msg |-> RoomMsg(rooms[2].room)]>>

\* C32: in every state, for every room r of the room table, socket c is in
\* the watcher list of r exactly when c is a connected socket whose roomid is
\* r; every watcher is connected and has a logged-in user; and no watcher
\* list holds a socket twice.
C32_WatchersMatchClients ==
    \A i \in 1..Len(rooms) :
        LET w == rooms[i].watchers
        IN /\ \A c \in ClientIds :
                Contains(w, c) <=> (c \in DOMAIN clients /\ clients[c].roomid = Some(i - 1))
           /\ \A k \in 1..Len(w) : w[k] \in DOMAIN clients /\ clients[w[k]].userid # None
           /\ \A k, l \in 1..Len(w) : w[k] = w[l] => k = l

\* The two sockets watch one room each, the second room being watched by a
\* socket whose user created the first.
C32_Witness ==
    /\ Len(rooms) = 2
    /\ \E c, d \in DOMAIN clients :
          /\ c # d
          /\ rooms[1].watchers = <<d>> /\ clients[d].roomid = Some(0)
          /\ rooms[2].watchers = <<c>> /\ clients[c].roomid = Some(1)
          /\ clients[c].userid = Some(rooms[1].room.players[1])

\* C33: in every state no room's player list holds a name twice, and a room
\* that is WaitingForPlayers{min,max} has at most max joined players.
C33_PlayersDistinctAndBounded ==
    \A i \in 1..Len(rooms) :
        LET r == rooms[i].room
        IN /\ \A k, l \in 1..Len(r.players) : r.players[k] = r.players[l] => k = l
           /\ r.state.tag = "WaitingForPlayers" => Len(r.players) <= r.state.max_players

\* C34: in every state, of the library server and of the stand-alone server
\* alike, every socket bound to a user name has a User record for that name
\* in users, so that no Logout, Login or Disconnect of that socket panics on
\* the missing record.
C34_BoundUserHasRecord ==
    \A c \in DOMAIN clients :
        clients[c].userid # None => clients[c].userid[1] \in DOMAIN users

\* C35: every message a step enqueued to a socket that has no logged-in user
\* after the step is NotLoggedIn: such a socket gets no RoomList, Room or
\* Error, whatever action it sent.
C35_LoggedOutOnlyNotLoggedIn ==
    \A i \in 1..Len(sent) :
        (sent[i].to \in DOMAIN clients /\ clients[sent[i].to].userid = None)
        => sent[i].msg = NotLoggedIn

\* C36: room membership goes by user name.  A Disconnect leaves every room's
\* player list and game as they are; a WatchRoom of an existing room by a
\* socket logged in as u is answered with the room's view for u; and a
\* MakeMove of a socket logged in as u, a player of the Started room it
\* watches whose turn it is, is the game's make_move for u: when the game
\* accepts it, the move is logged as u's and every watcher is sent its view.
\* None of this looks at which socket u is using.
C36_MembershipByName ==
    [][\A c \in ClientIds :
         /\ Disconnect(c) =>
               /\ Len(rooms') = Len(rooms)
               /\ \A i \in 1..Len(rooms) : rooms'[i].room = rooms[i].room
         /\ \A roomid \in WatchIds :
               (LoggedIn(c) /\ roomid < Len(rooms) /\ DoWatchRoom(c, roomid)) =>
                   sent' = <<[to |-> c,
                              msg |-> RoomMsg(to_view(rooms[roomid + 1].room,
                                                      clients[c].userid[1]))]>>
         /\ \A mov \in Moves :
               (/\ LoggedIn(c) /\ Watching(c)
                /\ room(State, clients[c].roomid[1]).state.tag = "Started"
                /\ LET g == room(State, clients[c].roomid[1]).state.game[1]
                       u == clients[c].userid[1]
                   IN /\ Contains(room(State, clients[c].roomid[1]).players, u)
                      /\ player_id(g, u) # None
                      /\ g.game_state = NextPlayer(player_id(g, u)[1])
                      /\ GameT_make_move(g, u, mov).err = None
                /\ DoMakeMove(c, mov))
               => LET i == clients[c].roomid[1] + 1
                      g == rooms[i].room.state.game[1]
                      u == clients[c].userid[1]
                      g2 == rooms'[i].room.state.game[1]
                  IN /\ g2 = GameT_make_move(g, u, mov).g
                     /\ Len(g2.move_log) = Len(g.move_log) + 1
                     /\ g2.move_log[Len(g2.move_log)].player = player_id(g, u)[1]
                     /\ Len(sent') = Len(rooms[i].watchers)
                     /\ \A k \in 1..Len(sent') :
                           /\ sent'[k].to = rooms[i].watchers[k]
                           /\ sent'[k].msg =
                                RoomMsg(to_view(rooms'[i].room,
                                                clients[sent'[k].to].userid[1]))]_vars

\* The socket of the room's creator came to the Started room after the
\* socket of the other player and was answered with the creator's view of the
\* game, its own hand hidden.
C36_Witness ==
    /\ Len(rooms) = 1
    /\ rooms[1].room.state.tag = "Started"
    /\ Len(rooms[1].room.players) = 2
    /\ \E c, d \in DOMAIN clients :
          /\ rooms[1].watchers = <<d, c>>
          /\ clients[c].userid = Some(rooms[1].room.players[1])
          /\ clients[d].userid = Some(rooms[1].room.players[2])
          /\ sent = <<[to |-> c,
                       msg |-> RoomMsg(to_view(rooms[1].room, rooms[1].room.players[1]))]>>
          /\ LET g == sent[1].msg.room.state.game[1]
             IN g.hands[player_id(g, rooms[1].room.players[1])[1] + 1].tag = "Hidden"

\* C37: every response a step enqueued to a socket goes out in a frame that
\* the receive loop of the interactive client decodes and processes.
C37_ClientProcessesEveryResponse ==
    \A i \in 1..Len(sent) : ws_to_stdout_processes(Sink_send(sent[i].msg))

\* The entry of the move log is a move that draws a card.
IsDraw(e) == e.mov.tag \in {"Play", "Discard"}

\* The index in the move log of the move that drew the last card of the deck.
EmptiedAt(g) ==
    CHOOSE i \in 1..Len(g.move_log) :
        /\ IsDraw(g.move_log[i])
        /\ Cardinality({j \in 1..i : IsDraw(g.move_log[j])}) = DeckAfterDeal(g)

\* C38: once a move of player p has drawn the last card of the deck, p is
\* the last player; the moves that follow are made by the players after p in
\* turn order, one each, the game is over at the latest after the move of p
\* that closes the round, and it is Ended only then; while the deck has cards
\* there is no last player; and every make_move on a game that is over
\* returns an error and leaves the game as it is.
C38_LastRoundAfterEmptyDeck ==
    /\ [](LET g == game
              n == Len(g.players)
          IN /\ DeckIsEmpty(g.deck) =>
                  LET e == EmptiedAt(g)
                      p == g.move_log[e].player
                      k == Len(g.move_log) - e
                  IN /\ g.last_player = Some(p)
                     /\ k <= n
                     /\ \A j \in 1..k : g.move_log[e + j].player = (p + j) % n
                     /\ g.game_state.tag = "NextPlayer" =>
                           k < n /\ g.game_state.player = (p + 1 + k) % n
                     /\ k = n => has_ended(g)
                     /\ g.game_state.tag = "Ended" => k = n
             /\ g.game_state.tag = "Ended" => DeckIsEmpty(g.deck)
             /\ ~DeckIsEmpty(g.deck) => g.last_player = None)
    /\ [][has_ended(game) => game' = game /\ outcome' # Some(None)]_vars

\* A game of three players that is Ended after the closing round, on which a
\* further move was refused.
C38_Witness ==
    /\ Len(game.players) = 3
    /\ game.game_state.tag = "Ended"
    /\ Len(game.move_log) - EmptiedAt(game) = 3
    /\ outcome = Some(Some("Game has ended."))

\* C39: in every state of a game the hint counter is between 0 and MAX_HINTS.
C39_HintsInRange == game.hints \in 0..MAX_HINTS

RECURSIVE CardsInHands(_, _)
\* The number of cards in the hands i..n of the game.
CardsInHands(g, i) ==
    IF i > Len(g.hands) THEN 0 ELSE Len(g.hands[i].cards) + CardsInHands(g, i + 1)

\* C40: in every state of a game the cards of the deck, of all hands, of the
\* discard pile and of the played stacks together are as many as the full
\* deck of the variant, whether the last move was accepted or refused.
C40_CardsConserved ==
    DeckLen(game.deck) + CardsInHands(game, 1) + Len(game.discarded) + Score(game.played)
        = Len(DeckNew(game.variant, "sorted").cards)

\* The deck is empty, a player who moved since holds one card less than was
\* dealt, cards were played and discarded, and the last move was refused.
C40_Witness ==
    /\ DeckIsEmpty(game.deck)
    /\ \E i \in 1..Len(game.hands) : Len(game.hands[i].cards) < game.cards_per_player
    /\ Score(game.played) > 0
    /\ Len(game.discarded) > 0
    /\ outcome # None /\ outcome # Some(None)

====
